---- MODULE Spec2Model ----
(***************************************************************************)
(* A model of the go-vl53l1x driver (swdee/go-vl53l1x): the register file  *)
(* of the sensor as seen over the bus, the driver struct, and one action   *)
(* per public operation.  Every handler is written as its statements, in   *)
(* the order of the Go source, over a run record; the first failing        *)
(* statement ends the handler, which is the source's                       *)
(* "if err != nil { return err }".                                         *)
(***************************************************************************)
EXTENDS Integers, Sequences, FiniteSets, TLC

VARIABLES
    dev,    \* the sensor's registers: register name -> value
    drv,    \* the VL53L1X struct
    last,   \* the most recent call: operation, arguments, result, bus log
    hist,   \* what the calls of the current ranging session did so far
    arg,    \* what the caller and the scene will supply: a budget, a result block
    pc      \* the position of the example program (main.go) in its main(),
            \* and the number of calls made so far where calls are counted

vars == <<dev, drv, last, hist, arg, pc>>

(***************************************************************************)
(* uint32 arithmetic.  TLC's integers are 32-bit signed, so a Go uint32 is *)
(* a pair <<hi, lo>> of 16-bit halves and every operation wraps at 2^32 as *)
(* the Go operators do.                                                    *)
(***************************************************************************)
W16 == 65536

U32(n) == <<(n \div W16) % W16, n % W16>>

Val(u) == u[1] * W16 + u[2]

Small(u) == u[1] < 32768

Pow2(k) == 2 ^ k

EqU(a, b) == a[1] = b[1] /\ a[2] = b[2]

LtU(a, b) == a[1] < b[1] \/ (a[1] = b[1] /\ a[2] < b[2])

LeU(a, b) == ~LtU(b, a)

AddU(a, b) ==
    LET lo == a[2] + b[2]
        hi == a[1] + b[1] + (lo \div W16)
    IN  <<hi % W16, lo % W16>>

SubU(a, b) ==
    LET lo == a[2] - b[2]
        borrow == IF lo < 0 THEN 1 ELSE 0
        hi == a[1] - b[1] - borrow
    IN  <<(hi + W16) % W16, (lo + W16) % W16>>

\* the full 32-bit product of two 16-bit halves, as a pair
Mul16(x, y) ==
    LET p1 == (x \div 256) * y
        p0 == (x % 256) * y
        mid == (p1 % 256) * 256 + p0
    IN  <<((p1 \div 256) + (mid \div W16)) % W16, mid % W16>>

MulU(a, b) ==
    IF a[1] = 0 /\ b[1] = 0 /\ a[2] < 32768
    THEN U32(a[2] * b[2])
    ELSE LET ll == Mul16(a[2], b[2])
             x1 == Mul16(a[1], b[2])[2]
             x2 == Mul16(a[2], b[1])[2]
         IN  <<(ll[1] + x1 + x2) % W16, ll[2]>>

\* Go: a shift count of 32 or more gives 0 for a uint32
ShlU(a, k) ==
    IF k >= 32 THEN <<0, 0>>
    ELSE IF k >= 16 THEN <<(a[2] * Pow2(k - 16)) % W16, 0>>
    ELSE LET lo == a[2] * Pow2(k)
         IN  <<((a[1] * Pow2(k)) + (lo \div W16)) % W16, lo % W16>>

ShrU(a, k) ==
    IF k >= 32 THEN <<0, 0>>
    ELSE IF k >= 16 THEN <<0, a[1] \div Pow2(k - 16)>>
    ELSE <<a[1] \div Pow2(k),
           (a[2] \div Pow2(k)) + (a[1] % Pow2(k)) * Pow2(16 - k)>>

BitU(a, i) == IF i >= 16 THEN (a[1] \div Pow2(i - 16)) % 2 ELSE (a[2] \div Pow2(i)) % 2

\* one step of binary long division at bit i of n: <<quotient, remainder>>
DivStep(n, d, i, q, r) ==
    LET r2 == AddU(ShlU(r, 1), <<0, BitU(n, i)>>)
    IN  IF r[1] >= 32768 \/ LeU(d, r2)
        THEN <<AddU(q, ShlU(<<0, 1>>, i)), SubU(r2, d)>>
        ELSE <<q, r2>>

RECURSIVE DivBits(_, _, _, _)
DivBits(n, d, i, qr) ==
    IF i < 0 THEN qr[1]
    ELSE CHOOSE x \in { DivBits(n, d, i - 1, t) : t \in {DivStep(n, d, i, qr[1], qr[2])} } :
             TRUE

\* unsigned division, d # 0 (the callers test for a zero divisor, see divisionPanics)
DivU(n, d) ==
    IF Small(n) /\ Small(d) THEN U32(Val(n) \div Val(d))
    ELSE IF LtU(n, d) THEN <<0, 0>>
    ELSE DivBits(n, d, 31, <<<<0, 0>>, <<0, 0>>>>)


(***************************************************************************)
(* Constants of the package.                                               *)
(***************************************************************************)
TimingGuard == 4528

TargetRate == 2560

Short == 0

Medium == 1

Long == 2

ModelID == 60108

\* the 8-bit configuration registers, the 16-bit ones and the 32-bit one
Regs8 ==
    { "SOFT_RESET", "PAD_I2C_HV_EXTSUP_CONFIG", "GPIO_TIO_HV_STATUS",
      "SIGMA_EST_EFFECTIVE_PULSE_WIDTH_NS", "SIGMA_EST_EFFECTIVE_AMBIENT_WIDTH_NS",
      "ALGO_CROSSTALK_COMP_VALID_HEIGHT_MM", "ALGO_RANGE_IGNORE_VALID_HEIGHT_MM",
      "ALGO_RANGE_MIN_CLIP", "ALGO_CONSISTENCY_CHECK_TOLERANCE",
      "DSS_CONFIG_APERTURE_ATTENUATION", "DSS_CONFIG_ROI_MODE_CONTROL",
      "SYSTEM_GROUPED_PARAMETER_HOLD_0", "SYSTEM_GROUPED_PARAMETER_HOLD_1",
      "SD_CONFIG_QUANTIFIER", "SYSTEM_GROUPED_PARAMETER_HOLD",
      "SYSTEM_SEED_CONFIG", "SYSTEM_SEQUENCE_CONFIG",
      "RANGE_CONFIG_VCSEL_PERIOD_A", "RANGE_CONFIG_VCSEL_PERIOD_B",
      "RANGE_CONFIG_VALID_PHASE_HIGH", "SD_CONFIG_WOI_SD0", "SD_CONFIG_WOI_SD1",
      "SD_CONFIG_INITIAL_PHASE_SD0", "SD_CONFIG_INITIAL_PHASE_SD1",
      "PHASECAL_CONFIG_TIMEOUT_MACROP", "PHASECAL_CONFIG_OVERRIDE",
      "CAL_CONFIG_VCSEL_START", "VHV_CONFIG_INIT",
      "VHV_CONFIG_TIMEOUT_MACROP_LOOP_BOUND", "PHASECAL_RESULT_VCSEL_START",
      "SYSTEM_INTERRUPT_CLEAR", "SYSTEM_MODE_START",
      "ROI_CONFIG_USER_ROI_CENTRE_SPAD",
      "ROI_CONFIG_USER_ROI_REQUESTED_GLOBAL_XY_SIZE" }

Regs16 ==
    { "IDENTIFICATION_MODEL_ID", "OSC_MEASURED_FAST_OSC_FREQUENCY",
      "RESULT_OSC_CALIBRATE_VAL", "DSS_CONFIG_TARGET_TOTAL_RATE_MCPS",
      "DSS_CONFIG_MANUAL_EFFECTIVE_SPADS_SELECT", "SYSTEM_THRESH_RATE_HIGH",
      "SYSTEM_THRESH_RATE_LOW", "RANGE_CONFIG_SIGMA_THRESH",
      "RANGE_CONFIG_MIN_COUNT_RATE_RTN_LIMIT_MCPS", "MM_CONFIG_OUTER_OFFSET_MM",
      "MM_CONFIG_TIMEOUT_MACROP_A", "RANGE_CONFIG_TIMEOUT_MACROP_A",
      "MM_CONFIG_TIMEOUT_MACROP_B", "RANGE_CONFIG_TIMEOUT_MACROP_B",
      "ALGO_PART_TO_PART_RANGE_OFFSET_MM" }

Regs32 == { "SYSTEM_INTERMEASUREMENT_PERIOD" }

Regs == Regs8 \cup Regs16 \cup Regs32

(***************************************************************************)
(* The run of one handler: the registers and the struct as they are after  *)
(* the transactions made so far, the number of bus transactions issued,    *)
(* the transaction the bus fails (0: none), the error that ended the       *)
(* handler ("" while it runs), the value the last read returned, the value *)
(* the handler returns, and the log of the transactions.                   *)
(***************************************************************************)
Run(d, v, failAt) ==
    [dev |-> d, drv |-> v, n |-> 0, fail |-> failAt, err |-> "",
     val |-> 0, ret |-> 0, log |-> <<>>]

Ok(s) == s.err = ""

Fails(s, what) == IF Ok(s) THEN [s EXCEPT !.err = what] ELSE s

Returns(s, value) == IF Ok(s) THEN [s EXCEPT !.ret = value] ELSE s

Sets(s, fld, value) == IF Ok(s) THEN [s EXCEPT !.drv[fld] = value] ELSE s

\* busWrite that repeats a failed transaction once
busWriteRetrying(s, reg, value) ==
    IF ~Ok(s) THEN s
    ELSE IF s.n + 1 = s.fail
    THEN [s EXCEPT !.n = @ + 2, !.dev[reg] = value, !.drv.lastStatus = 0,
                   !.log = @ \o << [k |-> "fail", reg |-> reg, val |-> value],
                                   [k |-> "w", reg |-> reg, val |-> value] >>]
    ELSE [s EXCEPT !.n = @ + 1, !.dev[reg] = value, !.drv.lastStatus = 0,
                   !.log = Append(@, [k |-> "w", reg |-> reg, val |-> value])]

\* one write transaction: the address bytes and the value bytes in one WriteBytes
busWrite(s, reg, value) ==
    IF ~Ok(s) THEN s
    ELSE IF s.n + 1 = s.fail
    THEN [s EXCEPT !.n = @ + 1, !.err = "bus",
                   !.log = Append(@, [k |-> "fail", reg |-> reg, val |-> value])]
    ELSE [s EXCEPT !.n = @ + 1, !.dev[reg] = value, !.drv.lastStatus = 0,
                   !.log = Append(@, [k |-> "w", reg |-> reg, val |-> value])]

\* one read: WriteBytes of the address, then ReadBytes; the device answers value
busRead(s, reg, value) ==
    IF ~Ok(s) THEN s
    ELSE IF s.n + 1 = s.fail
    THEN [s EXCEPT !.n = @ + 1, !.err = "bus",
                   !.log = Append(@, [k |-> "fail", reg |-> reg, val |-> value])]
    ELSE [s EXCEPT !.n = @ + 1, !.val = value,
                   !.log = Append(@, [k |-> "r", reg |-> reg, val |-> value])]

writeReg(s, reg, value) == busWrite(s, reg, value % 256)

writeReg16Bit(s, reg, value) == busWrite(s, reg, value % W16)

writeReg32Bit(s, reg, value) == busWrite(s, reg, value)

readReg(s, reg) == busRead(s, reg, s.dev[reg])

readReg16Bit(s, reg) == busRead(s, reg, s.dev[reg])

\* Steps(F, s, i, n): the statements i..n of a handler, F(s, j) being the j-th
\* one, run in order from s; the first error ends the handler
RECURSIVE Steps(_, _, _, _)
Steps(F(_, _), s, i, n) ==
    IF i > n \/ ~Ok(s) THEN s
    ELSE CHOOSE r \in { Steps(F, t, i + 1, n) : t \in {F(s, i)} } : TRUE

\* writes[i..]: consecutive register writes <<register, width, value>>
RECURSIVE writeRegs(_, _, _)
writeRegs(s, writes, i) ==
    IF i > Len(writes) THEN s
    ELSE writeRegs(CASE writes[i][2] = 8 -> writeReg(s, writes[i][1], writes[i][3])
                     [] writes[i][2] = 16 -> writeReg16Bit(s, writes[i][1], writes[i][3])
                     [] writes[i][2] = 32 -> writeReg32Bit(s, writes[i][1], writes[i][3]),
                   writes, i + 1)

(***************************************************************************)
(* Timeout codec and macro period (range.go).                              *)
(***************************************************************************)
\* decodeTimeout without the addition of 1
decodeTimeoutWithoutOffset(regVal) ==
    ShlU(<<0, regVal % 256>>, regVal \div 256)

decodeTimeout(regVal) ==
    AddU(ShlU(<<0, regVal % 256>>, regVal \div 256), <<0, 1>>)

RECURSIVE encodeLoop(_, _)
encodeLoop(lsByte, msByte) ==
    IF lsByte[1] > 0 \/ lsByte[2] >= 256
    THEN encodeLoop(ShrU(lsByte, 1), msByte + 1)
    ELSE ((msByte * 256) % W16) + lsByte[2]

\* encodeTimeout without the subtraction of 1
encodeTimeoutWithoutOffset(timeoutMclks) ==
    IF LtU(<<0, 0>>, timeoutMclks)
    THEN encodeLoop(timeoutMclks, 0)
    ELSE 0

encodeTimeout(timeoutMclks) ==
    IF LtU(<<0, 0>>, timeoutMclks)
    THEN encodeLoop(SubU(timeoutMclks, <<0, 1>>), 0)
    ELSE 0

timeoutMclksToMicroseconds(timeoutMclks, macroPeriodUs) ==
    ShrU(AddU(MulU(timeoutMclks, macroPeriodUs), <<0, 2048>>), 12)

timeoutMicrosecondsToMclks(timeoutUs, macroPeriodUs) ==
    DivU(AddU(ShlU(timeoutUs, 12), ShrU(macroPeriodUs, 1)), macroPeriodUs)

\* fastOscFrequency # 0
calcMacroPeriod(v, vcselPeriod) ==
    LET pllPeriodUs == U32(1073741824 \div v.fastOscFrequency)
        vcselPeriodPclks == U32((vcselPeriod + 1) * 2)
    IN  ShrU(MulU(ShrU(MulU(U32(2304), pllPeriodUs), 6), vcselPeriodPclks), 6)

\* Go panics on an integer division by zero: 1<<30 / fastOscFrequency in
\* calcMacroPeriod, and the division by the macro period in
\* timeoutMicrosecondsToMclks
divisionPanics(v, vcselPeriod) ==
    \/ v.fastOscFrequency = 0
    \/ EqU(calcMacroPeriod(v, vcselPeriod), <<0, 0>>)

(***************************************************************************)
(* Timing budget (range.go, second file of the package).                   *)
(***************************************************************************)
\* Range A: phase-cal timeout, MM timeout A, range timeout A
budgetTimingA(s, vcselA, rangeTimeoutUs) ==
    IF ~Ok(s) THEN s
    ELSE IF divisionPanics(s.drv, vcselA) THEN Fails(s, "panic")
    ELSE LET macroPeriodUs == calcMacroPeriod(s.drv, vcselA)
             phasecalTimeoutMclks == timeoutMicrosecondsToMclks(U32(1000), macroPeriodUs)
         IN  writeRegs(s,
                 << <<"PHASECAL_CONFIG_TIMEOUT_MACROP", 8,
                      IF LtU(U32(255), phasecalTimeoutMclks)
                      THEN 255 ELSE phasecalTimeoutMclks[2]>>,
                    <<"MM_CONFIG_TIMEOUT_MACROP_A", 16,
                      encodeTimeout(timeoutMicrosecondsToMclks(U32(1), macroPeriodUs))>>,
                    <<"RANGE_CONFIG_TIMEOUT_MACROP_A", 16,
                      encodeTimeout(timeoutMicrosecondsToMclks(rangeTimeoutUs,
                                                               macroPeriodUs))>> >>, 1)

\* Range B: MM timeout B, range timeout B
budgetTimingB(s, vcselB, rangeTimeoutUs) ==
    IF ~Ok(s) THEN s
    ELSE IF divisionPanics(s.drv, vcselB) THEN Fails(s, "panic")
    ELSE LET macroPeriodUs == calcMacroPeriod(s.drv, vcselB)
         IN  writeRegs(s,
                 << <<"MM_CONFIG_TIMEOUT_MACROP_B", 16,
                      encodeTimeout(timeoutMicrosecondsToMclks(U32(1), macroPeriodUs))>>,
                    <<"RANGE_CONFIG_TIMEOUT_MACROP_B", 16,
                      encodeTimeout(timeoutMicrosecondsToMclks(rangeTimeoutUs,
                                                               macroPeriodUs))>> >>, 1)

\* the statements of SetMeasurementTimingBudget after the range check
setBudgetStep(s, i, rangeTimeoutUs) ==
    CASE i = 1 -> readReg(s, "RANGE_CONFIG_VCSEL_PERIOD_A")
      [] i = 2 -> budgetTimingA(s, s.val, rangeTimeoutUs)
      [] i = 3 -> readReg(s, "RANGE_CONFIG_VCSEL_PERIOD_B")
      [] i = 4 -> budgetTimingB(s, s.val, rangeTimeoutUs)

\* budget is a uint32 (a pair)
SetMeasurementTimingBudget(s, budget) ==
    LET budgetUs == MulU(budget, U32(1000))
        rangeTimeoutUs == ShrU(SubU(budgetUs, U32(TimingGuard)), 1)
    IN  IF ~Ok(s) THEN s
        ELSE IF LeU(budgetUs, U32(TimingGuard)) THEN Fails(s, "timing budget too low")
        ELSE IF LtU(U32(1100000), rangeTimeoutUs) THEN Fails(s, "timing budget too high")
        ELSE Steps(LAMBDA t, i : setBudgetStep(t, i, rangeTimeoutUs), s, 1, 4)

\* GetMeasurementTimingBudget that leaves TimingGuard out of the sum
GetMeasurementTimingBudgetWithoutGuard(s) ==
    LET s1 == readReg(s, "RANGE_CONFIG_VCSEL_PERIOD_A")
        s2 == readReg16Bit(s1, "RANGE_CONFIG_TIMEOUT_MACROP_A")
    IN  IF ~Ok(s1) THEN s1
        ELSE IF s1.drv.fastOscFrequency = 0 THEN Fails(s1, "panic")
        ELSE IF ~Ok(s2) THEN s2
        ELSE Returns(s2,
                 DivU(MulU(U32(2),
                           timeoutMclksToMicroseconds(
                               decodeTimeout(s2.val),
                               calcMacroPeriod(s2.drv, s1.val))),
                      U32(1000)))

\* returns the budget in milliseconds, a uint32 (a pair)
GetMeasurementTimingBudget(s) ==
    LET s1 == readReg(s, "RANGE_CONFIG_VCSEL_PERIOD_A")
        s2 == readReg16Bit(s1, "RANGE_CONFIG_TIMEOUT_MACROP_A")
    IN  IF ~Ok(s1) THEN s1
        ELSE IF s1.drv.fastOscFrequency = 0 THEN Fails(s1, "panic")
        ELSE IF ~Ok(s2) THEN s2
        ELSE Returns(s2,
                 DivU(AddU(MulU(U32(2),
                                timeoutMclksToMicroseconds(
                                    decodeTimeout(s2.val),
                                    calcMacroPeriod(s2.drv, s1.val))),
                           U32(TimingGuard)),
                      U32(1000)))

(***************************************************************************)
(* Distance mode.                                                          *)
(***************************************************************************)
\* the preset of each mode: VCSEL period A and B, valid phase high, WOI SD0
\* and SD1, initial phase SD0 and SD1
ModePreset(mode) ==
    CASE mode = Short  -> <<7, 5, 56, 7, 5, 6, 6>>
      [] mode = Medium -> <<11, 9, 120, 11, 9, 10, 10>>
      [] mode = Long   -> <<15, 13, 184, 15, 13, 14, 14>>

writePreset(s, p) ==
    writeRegs(s, << <<"RANGE_CONFIG_VCSEL_PERIOD_A", 8, p[1]>>,
                    <<"RANGE_CONFIG_VCSEL_PERIOD_B", 8, p[2]>>,
                    <<"RANGE_CONFIG_VALID_PHASE_HIGH", 8, p[3]>>,
                    <<"SD_CONFIG_WOI_SD0", 8, p[4]>>,
                    <<"SD_CONFIG_WOI_SD1", 8, p[5]>>,
                    <<"SD_CONFIG_INITIAL_PHASE_SD0", 8, p[6]>>,
                    <<"SD_CONFIG_INITIAL_PHASE_SD1", 8, p[7]>> >>, 1)

GetDistanceMode(v) == v.distanceMode

\* setDistanceModeStep without the default case of the switch
setDistanceModeStepUnchecked(s, i, mode) ==
    CASE i = 1 -> GetMeasurementTimingBudget(s)
      [] i = 2 -> IF mode \in {Short, Medium, Long}
                  THEN writePreset(s, ModePreset(mode))
                  ELSE s
      [] i = 3 -> SetMeasurementTimingBudget(s, s.ret)
      [] i = 4 -> Sets(s, "distanceMode", mode)

\* the statements of SetDistanceMode; the saved budget travels in s.ret
setDistanceModeStep(s, i, mode) ==
    CASE i = 1 -> GetMeasurementTimingBudget(s)
      [] i = 2 -> IF mode \in {Short, Medium, Long}
                  THEN writePreset(s, ModePreset(mode))
                  ELSE Fails(s, "unrecognized distance mode")
      [] i = 3 -> SetMeasurementTimingBudget(s, s.ret)
      [] i = 4 -> Sets(s, "distanceMode", mode)

SetDistanceMode(s, mode) ==
    Steps(LAMBDA t, i : setDistanceModeStep(t, i, mode), s, 1, 4)

(***************************************************************************)
(* Ranging session (range.go).                                             *)
(***************************************************************************)
HardwareFail == 5

MinRangeFail == 13

SynchronizationInt == 10

OutOfBoundsFail == 4

SignalFail == 2

SigmaFail == 1

WrapTargetFail == 7

XtalkSignalFail == 9

RangeValidMinRangeClipped == 3

RangeValidNoWrapCheckFail == 6

RangeValid == 0

NoneStatus == 255

\* the resultBuffer of a fresh struct
NoResults ==
    [rangeStatus |-> 0, streamCount |-> 0, dssActualEffectiveSpadsSD0 |-> 0,
     ambientCountRateMCPS_SD0 |-> 0, finalCrosstalkCorrectedRangeMM_SD0 |-> 0,
     peakSignalCountRateCrosstalkCorrectedMCPS_SD0 |-> 0]

\* the RangingData{} returned with an error
NoRangingData ==
    [RangeMM |-> 0, RangeStatus |-> 0, PeakSignalCountRateMCPS |-> <<0, 128>>,
     AmbientCountRateMCPS |-> <<0, 128>>]

\* periodMs is a uint32 (a pair)
StartContinuous(s, periodMs) ==
    writeRegs(s, << <<"SYSTEM_INTERMEASUREMENT_PERIOD", 32,
                      MulU(periodMs, U32(s.drv.oscCalibrateVal))>>,
                    <<"SYSTEM_INTERRUPT_CLEAR", 8, 1>>,
                    <<"SYSTEM_MODE_START", 8, 64>> >>, 1)

stopContinuousStep(s, i) ==
    CASE i = 1 -> writeReg(s, "SYSTEM_MODE_START", 128)
      [] i = 2 -> Sets(s, "calibrated", FALSE)
      [] i = 3 -> IF s.drv.savedVHVInit # 0
                  THEN writeReg(s, "VHV_CONFIG_INIT", s.drv.savedVHVInit)
                  ELSE s
      [] i = 4 -> IF s.drv.savedVHVTimeout # 0
                  THEN writeReg(s, "VHV_CONFIG_TIMEOUT_MACROP_LOOP_BOUND",
                                s.drv.savedVHVTimeout)
                  ELSE s
      [] i = 5 -> writeReg(s, "PHASECAL_CONFIG_OVERRIDE", 0)

StopContinuous(s) == Steps(stopContinuousStep, s, 1, 5)

\* checkTimeoutExpired without the test that a timeout is configured
checkTimeoutExpiredUnguarded(v, elapsed) == elapsed > v.ioTimeout

\* elapsed: the time since startTimeout, in milliseconds
checkTimeoutExpired(v, elapsed) == v.ioTimeout > 0 /\ elapsed > v.ioTimeout

\* status: what the device answers for GPIO_TIO_HV_STATUS; .val is "ready"
dataReady(s, status) ==
    LET s1 == busRead(s, "GPIO_TIO_HV_STATUS", status)
    IN  IF Ok(s1) THEN [s1 EXCEPT !.val = (status % 2 = 0)] ELSE s1

\* pollDataReady that resets the calibration state when it times out
RECURSIVE pollDataReadyResetting(_, _, _)
pollDataReadyResetting(s, notReady, elapsed) ==
    IF notReady = 0 THEN dataReady(s, 2)
    ELSE LET s1 == dataReady(s, 3)
         IN  IF ~Ok(s1) THEN s1
             ELSE IF notReady = 1 /\ checkTimeoutExpired(s1.drv, elapsed)
             THEN Fails(Sets(Sets(s1, "calibrated", FALSE), "didTimeout", TRUE),
                        "timeout waiting for data")
             ELSE pollDataReadyResetting(s1, notReady - 1, elapsed)

\* The poll of a blocking Read: notReady polls see bit 0 set and the next one
\* sees it clear, unless the timeout has expired (elapsed) at the check that
\* follows the last of the notReady polls.
RECURSIVE pollDataReady(_, _, _)
pollDataReady(s, notReady, elapsed) ==
    IF notReady = 0 THEN dataReady(s, 2)
    ELSE LET s1 == dataReady(s, 3)
         IN  IF ~Ok(s1) THEN s1
             ELSE IF notReady = 1 /\ checkTimeoutExpired(s1.drv, elapsed)
             THEN Fails(Sets(s1, "didTimeout", TRUE), "timeout waiting for data")
             ELSE pollDataReady(s1, notReady - 1, elapsed)

\* block: the six fields the driver keeps of the 17 bytes at RESULT_RANGE_STATUS
readResults(s, block) ==
    Sets(busRead(s, "RESULT_RANGE_STATUS", block), "results", block)

setupManualCalibrationStep(s, i) ==
    CASE i = 1 -> readReg(s, "VHV_CONFIG_INIT")
      [] i = 2 -> Sets(s, "savedVHVInit", s.val)
      [] i = 3 -> readReg(s, "VHV_CONFIG_TIMEOUT_MACROP_LOOP_BOUND")
      [] i = 4 -> Sets(s, "savedVHVTimeout", s.val)
      [] i = 5 -> writeReg(s, "VHV_CONFIG_INIT", s.drv.savedVHVInit % 128)
      [] i = 6 -> writeReg(s, "VHV_CONFIG_TIMEOUT_MACROP_LOOP_BOUND",
                           (s.drv.savedVHVTimeout % 4) + 12)
      [] i = 7 -> writeReg(s, "PHASECAL_CONFIG_OVERRIDE", 1)
      [] i = 8 -> readReg(s, "PHASECAL_RESULT_VCSEL_START")
      [] i = 9 -> writeReg(s, "CAL_CONFIG_VCSEL_START", s.val)

setupManualCalibration(s) == Steps(setupManualCalibrationStep, s, 1, 9)

\* updateDSS without the fallback write
updateDSSWithoutFallback(s) ==
    LET spadCount == s.drv.results.dssActualEffectiveSpadsSD0
        sum == s.drv.results.peakSignalCountRateCrosstalkCorrectedMCPS_SD0
                 + s.drv.results.ambientCountRateMCPS_SD0
        totalRatePerSpad ==
            DivU(ShlU(U32(IF sum > 65535 THEN 65535 ELSE sum), 16), U32(spadCount))
        requiredSpads == DivU(ShlU(U32(TargetRate), 16), totalRatePerSpad)
    IN  IF ~Ok(s) THEN s
        ELSE IF spadCount # 0 /\ ~EqU(totalRatePerSpad, <<0, 0>>)
        THEN writeReg16Bit(s, "DSS_CONFIG_MANUAL_EFFECTIVE_SPADS_SELECT",
                           IF LtU(U32(65535), requiredSpads)
                           THEN 65535 ELSE requiredSpads[2])
        ELSE s

\* updateDSS without the clip of the rate sum to 16 bits
updateDSSWithoutClip(s) ==
    LET spadCount == s.drv.results.dssActualEffectiveSpadsSD0
        sum == s.drv.results.peakSignalCountRateCrosstalkCorrectedMCPS_SD0
                 + s.drv.results.ambientCountRateMCPS_SD0
        totalRatePerSpad == DivU(ShlU(U32(sum), 16), U32(spadCount))
        requiredSpads == DivU(ShlU(U32(TargetRate), 16), totalRatePerSpad)
    IN  IF ~Ok(s) THEN s
        ELSE IF spadCount # 0 /\ ~EqU(totalRatePerSpad, <<0, 0>>)
        THEN writeReg16Bit(s, "DSS_CONFIG_MANUAL_EFFECTIVE_SPADS_SELECT",
                           IF LtU(U32(65535), requiredSpads)
                           THEN 65535 ELSE requiredSpads[2])
        ELSE writeReg16Bit(s, "DSS_CONFIG_MANUAL_EFFECTIVE_SPADS_SELECT", 32768)

updateDSS(s) ==
    LET spadCount == s.drv.results.dssActualEffectiveSpadsSD0
        sum == s.drv.results.peakSignalCountRateCrosstalkCorrectedMCPS_SD0
                 + s.drv.results.ambientCountRateMCPS_SD0
        totalRatePerSpad ==
            DivU(ShlU(U32(IF sum > 65535 THEN 65535 ELSE sum), 16), U32(spadCount))
        requiredSpads == DivU(ShlU(U32(TargetRate), 16), totalRatePerSpad)
    IN  IF ~Ok(s) THEN s
        ELSE IF spadCount # 0 /\ ~EqU(totalRatePerSpad, <<0, 0>>)
        THEN writeReg16Bit(s, "DSS_CONFIG_MANUAL_EFFECTIVE_SPADS_SELECT",
                           IF LtU(U32(65535), requiredSpads)
                           THEN 65535 ELSE requiredSpads[2])
        ELSE writeReg16Bit(s, "DSS_CONFIG_MANUAL_EFFECTIVE_SPADS_SELECT", 32768)

\* rangeStatusOf that does not look at the stream count
rangeStatusOfAnyStream(rangeStatus, streamCount) ==
    CASE rangeStatus \in {17, 2, 1, 3} -> HardwareFail
      [] rangeStatus = 13 -> MinRangeFail
      [] rangeStatus = 18 -> SynchronizationInt
      [] rangeStatus = 5 -> OutOfBoundsFail
      [] rangeStatus = 4 -> SignalFail
      [] rangeStatus = 6 -> SigmaFail
      [] rangeStatus = 7 -> WrapTargetFail
      [] rangeStatus = 12 -> XtalkSignalFail
      [] rangeStatus = 8 -> RangeValidMinRangeClipped
      [] rangeStatus = 9 -> RangeValid
      [] OTHER -> NoneStatus

rangeStatusOf(rangeStatus, streamCount) ==
    CASE rangeStatus \in {17, 2, 1, 3} -> HardwareFail
      [] rangeStatus = 13 -> MinRangeFail
      [] rangeStatus = 18 -> SynchronizationInt
      [] rangeStatus = 5 -> OutOfBoundsFail
      [] rangeStatus = 4 -> SignalFail
      [] rangeStatus = 6 -> SigmaFail
      [] rangeStatus = 7 -> WrapTargetFail
      [] rangeStatus = 12 -> XtalkSignalFail
      [] rangeStatus = 8 -> RangeValidMinRangeClipped
      [] rangeStatus = 9 ->
            IF streamCount = 0 THEN RangeValidNoWrapCheckFail ELSE RangeValid
      [] OTHER -> NoneStatus

\* a count rate in 9.7 fixed point as the fraction fixed / 128
countRateFixedToFloat(countRateFixed) == <<countRateFixed, 128>>

\* getRangingData with a gain correction that rounds down
getRangingDataRoundingDown(v) ==
    [RangeMM |-> Val(DivU(MulU(U32(v.results.finalCrosstalkCorrectedRangeMM_SD0),
                               U32(2011)),
                          U32(2048))) % W16,
     RangeStatus |-> rangeStatusOf(v.results.rangeStatus, v.results.streamCount),
     PeakSignalCountRateMCPS |->
         countRateFixedToFloat(v.results.peakSignalCountRateCrosstalkCorrectedMCPS_SD0),
     AmbientCountRateMCPS |->
         countRateFixedToFloat(v.results.ambientCountRateMCPS_SD0)]

getRangingData(v) ==
    [RangeMM |-> Val(DivU(AddU(MulU(U32(v.results.finalCrosstalkCorrectedRangeMM_SD0),
                                    U32(2011)),
                               U32(1024)),
                          U32(2048))) % W16,
     RangeStatus |-> rangeStatusOf(v.results.rangeStatus, v.results.streamCount),
     PeakSignalCountRateMCPS |->
         countRateFixedToFloat(v.results.peakSignalCountRateCrosstalkCorrectedMCPS_SD0),
     AmbientCountRateMCPS |->
         countRateFixedToFloat(v.results.ambientCountRateMCPS_SD0)]

readStep(s, i, blocking, notReady, elapsed, block) ==
    CASE i = 1 -> IF blocking THEN pollDataReady(s, notReady, elapsed) ELSE s
      [] i = 2 -> readResults(s, block)
      [] i = 3 -> IF ~s.drv.calibrated
                  THEN Sets(setupManualCalibration(s), "calibrated", TRUE)
                  ELSE s
      [] i = 4 -> updateDSS(s)
      [] i = 5 -> Returns(s, getRangingData(s.drv))
      [] i = 6 -> writeReg(s, "SYSTEM_INTERRUPT_CLEAR", 1)

\* every error return of Read carries an empty RangingData
orNoData(s) == IF Ok(s) THEN s ELSE [s EXCEPT !.ret = NoRangingData]

Read(s, blocking, notReady, elapsed, block) ==
    orNoData(Steps(LAMBDA t, i : readStep(t, i, blocking, notReady, elapsed, block),
                   s, 1, 6))

ReadSingle(s, notReady, elapsed, block) ==
    Read(writeRegs(s, << <<"SYSTEM_INTERRUPT_CLEAR", 8, 1>>,
                         <<"SYSTEM_MODE_START", 8, 16>> >>, 1),
         TRUE, notReady, elapsed, block)

(***************************************************************************)
(* Initialization (init.go, vl53l1x.go).                                   *)
(***************************************************************************)
\* new(): the struct before Init; budget is a uint32 (a pair)
new(mode, budget) ==
    [ioTimeout |-> 0, didTimeout |-> FALSE, fastOscFrequency |-> 0,
     oscCalibrateVal |-> 0, calibrated |-> FALSE, savedVHVInit |-> 0,
     savedVHVTimeout |-> 0, distanceMode |-> mode, timingBudget |-> budget,
     lastStatus |-> 0, results |-> NoResults]

SetTimeout(v, timeout) == [v EXCEPT !.ioTimeout = timeout]

\* TimeoutOccurred that leaves the flag as it is
TimeoutOccurredKeeping(s) == Returns(s, s.drv.didTimeout)

TimeoutOccurred(s) == Returns(Sets(s, "didTimeout", FALSE), s.drv.didTimeout)

\* the boot poll: notReady polls see bit 0 of FIRMWARE_SYSTEM_STATUS clear
RECURSIVE pollBoot(_, _, _)
pollBoot(s, notReady, elapsed) ==
    LET s1 == busRead(s, "FIRMWARE_SYSTEM_STATUS", IF notReady = 0 THEN 1 ELSE 0)
    IN  IF ~Ok(s1) THEN s1
        ELSE IF (s1.val % 2) # 0 /\ s1.drv.lastStatus = 0 THEN s1
        ELSE IF notReady = 1 /\ checkTimeoutExpired(s1.drv, elapsed)
        THEN Fails(Sets(s1, "didTimeout", TRUE), "timeout waiting for boot completion")
        ELSE pollBoot(s1, notReady - 1, elapsed)

dataInitStep(s, i, bootNotReady, bootElapsed) ==
    CASE i = 1 -> readReg16Bit(s, "IDENTIFICATION_MODEL_ID")
      [] i = 2 -> IF s.val # ModelID THEN Fails(s, "unexpected model ID") ELSE s
      [] i = 3 -> writeReg(s, "SOFT_RESET", 0)
      [] i = 4 -> writeReg(s, "SOFT_RESET", 1)
      [] i = 5 -> pollBoot(s, bootNotReady, bootElapsed)
      [] i = 6 -> readReg(s, "PAD_I2C_HV_EXTSUP_CONFIG")
      [] i = 7 -> writeReg(s, "PAD_I2C_HV_EXTSUP_CONFIG", s.val + (1 - (s.val % 2)))
      [] i = 8 -> readReg16Bit(s, "OSC_MEASURED_FAST_OSC_FREQUENCY")
      [] i = 9 -> Sets(s, "fastOscFrequency", s.val)
      [] i = 10 -> readReg16Bit(s, "RESULT_OSC_CALIBRATE_VAL")
      [] i = 11 -> Sets(s, "oscCalibrateVal", s.val)

dataInit(s, bootNotReady, bootElapsed) ==
    Steps(LAMBDA t, i : dataInitStep(t, i, bootNotReady, bootElapsed), s, 1, 11)

\* the static configuration writes, in order: <<register, width, value>>
StaticConfig ==
    << <<"DSS_CONFIG_TARGET_TOTAL_RATE_MCPS", 16, TargetRate>>,
       <<"GPIO_TIO_HV_STATUS", 8, 2>>,
       <<"SIGMA_EST_EFFECTIVE_PULSE_WIDTH_NS", 8, 8>>,
       <<"SIGMA_EST_EFFECTIVE_AMBIENT_WIDTH_NS", 8, 16>>,
       <<"ALGO_CROSSTALK_COMP_VALID_HEIGHT_MM", 8, 1>>,
       <<"ALGO_RANGE_IGNORE_VALID_HEIGHT_MM", 8, 255>>,
       <<"ALGO_RANGE_MIN_CLIP", 8, 0>>,
       <<"ALGO_CONSISTENCY_CHECK_TOLERANCE", 8, 2>>,
       <<"SYSTEM_THRESH_RATE_HIGH", 16, 0>>,
       <<"SYSTEM_THRESH_RATE_LOW", 16, 0>>,
       <<"DSS_CONFIG_APERTURE_ATTENUATION", 8, 56>>,
       <<"RANGE_CONFIG_SIGMA_THRESH", 16, 360>>,
       <<"RANGE_CONFIG_MIN_COUNT_RATE_RTN_LIMIT_MCPS", 16, 192>>,
       <<"SYSTEM_GROUPED_PARAMETER_HOLD_0", 8, 1>>,
       <<"SYSTEM_GROUPED_PARAMETER_HOLD_1", 8, 1>>,
       <<"SD_CONFIG_QUANTIFIER", 8, 2>>,
       <<"SYSTEM_GROUPED_PARAMETER_HOLD", 8, 0>>,
       <<"SYSTEM_SEED_CONFIG", 8, 1>>,
       <<"SYSTEM_SEQUENCE_CONFIG", 8, 139>>,
       <<"DSS_CONFIG_MANUAL_EFFECTIVE_SPADS_SELECT", 16, 51200>>,
       <<"DSS_CONFIG_ROI_MODE_CONTROL", 8, 2>> >>

staticInitStep(s, i) ==
    CASE i = 1 -> writeRegs(s, StaticConfig, 1)
      [] i = 2 -> SetDistanceMode(s, s.drv.distanceMode)
      [] i = 3 -> SetMeasurementTimingBudget(s, s.drv.timingBudget)
      [] i = 4 -> readReg16Bit(s, "MM_CONFIG_OUTER_OFFSET_MM")
      [] i = 5 -> writeReg16Bit(s, "ALGO_PART_TO_PART_RANGE_OFFSET_MM",
                                (s.val * 4) % W16)

staticInit(s) == Steps(staticInitStep, s, 1, 5)

warmSensorStep(s, i, notReady, elapsed, block) ==
    CASE i = 1 -> StartContinuous(s, s.drv.timingBudget)
      [] i = 2 -> Read(s, TRUE, notReady, elapsed, block)
      [] i = 3 -> StopContinuous(s)

warmSensor(s, notReady, elapsed, block) ==
    Steps(LAMBDA t, i : warmSensorStep(t, i, notReady, elapsed, block), s, 1, 3)

initStep(s, i, bootNotReady, bootElapsed, notReady, elapsed, block) ==
    CASE i = 1 -> [s EXCEPT !.drv = SetTimeout(s.drv, 500)]
      [] i = 2 -> dataInit(s, bootNotReady, bootElapsed)
      [] i = 3 -> staticInit(s)
      [] i = 4 -> warmSensor(s, notReady, elapsed, block)

\* Init, as New calls it through setup
InitDevice(s, bootNotReady, bootElapsed, notReady, elapsed, block) ==
    Steps(LAMBDA t, i : initStep(t, i, bootNotReady, bootElapsed, notReady, elapsed,
                                 block),
          s, 1, 4)

(***************************************************************************)
(* Region of interest (roi.go) and the example program's setROI.           *)
(***************************************************************************)
\* SetROISize without the minimum size
SetROISizeUnchecked(s, width, height) ==
    LET w == IF width > 16 THEN 16 ELSE width
        h == IF height > 16 THEN 16 ELSE height
    IN  IF ~Ok(s) THEN s
        ELSE writeReg(IF w > 10 \/ h > 10
                      THEN writeReg(s, "ROI_CONFIG_USER_ROI_CENTRE_SPAD", 199)
                      ELSE s,
                      "ROI_CONFIG_USER_ROI_REQUESTED_GLOBAL_XY_SIZE",
                      (((h - 1) * 16) % 256) + ((w - 1) % 16))

\* SetROISize that stores the size it was given, not the clipped one
SetROISizeUnclipped(s, width, height) ==
    IF ~Ok(s) THEN s
    ELSE IF width < 4 \/ height < 4 THEN Fails(s, "ROI size must be at least 4x4")
    ELSE writeReg(IF width > 10 \/ height > 10
                  THEN writeReg(s, "ROI_CONFIG_USER_ROI_CENTRE_SPAD", 199)
                  ELSE s,
                  "ROI_CONFIG_USER_ROI_REQUESTED_GLOBAL_XY_SIZE",
                  (((height - 1) * 16) % 256) + ((width - 1) % 16))

\* SetROISize that centres the region whatever its size
SetROISizeCentring(s, width, height) ==
    LET w == IF width > 16 THEN 16 ELSE width
        h == IF height > 16 THEN 16 ELSE height
    IN  IF ~Ok(s) THEN s
        ELSE IF w < 4 \/ h < 4 THEN Fails(s, "ROI size must be at least 4x4")
        ELSE writeReg(writeReg(s, "ROI_CONFIG_USER_ROI_CENTRE_SPAD", 199),
                      "ROI_CONFIG_USER_ROI_REQUESTED_GLOBAL_XY_SIZE",
                      (((h - 1) * 16) % 256) + (w - 1))

SetROISize(s, width, height) ==
    LET w == IF width > 16 THEN 16 ELSE width
        h == IF height > 16 THEN 16 ELSE height
    IN  IF ~Ok(s) THEN s
        ELSE IF w < 4 \/ h < 4 THEN Fails(s, "ROI size must be at least 4x4")
        ELSE writeReg(IF w > 10 \/ h > 10
                      THEN writeReg(s, "ROI_CONFIG_USER_ROI_CENTRE_SPAD", 199)
                      ELSE s,
                      "ROI_CONFIG_USER_ROI_REQUESTED_GLOBAL_XY_SIZE",
                      (((h - 1) * 16) % 256) + (w - 1))

GetROISize(s) ==
    LET s1 == readReg(s, "ROI_CONFIG_USER_ROI_REQUESTED_GLOBAL_XY_SIZE")
    IN  IF ~Ok(s1) THEN [s1 EXCEPT !.ret = <<0, 0>>]
        ELSE Returns(s1, <<(s1.val % 16) + 1, (s1.val \div 16) + 1>>)

SetROICenter(s, spadNumber) ==
    writeReg(s, "ROI_CONFIG_USER_ROI_CENTRE_SPAD", spadNumber)

GetROICenter(s) ==
    LET s1 == readReg(s, "ROI_CONFIG_USER_ROI_CENTRE_SPAD")
    IN  Returns(s1, s1.val)

\* main.go's setROI; each failure ends the program (log.Fatalf)
setROIStep(s, i) ==
    CASE i = 1 -> SetROISize(s, 12, 12)
      [] i = 2 -> SetROICenter(s, 199)
      [] i = 3 -> GetROISize(s)
      [] i = 4 -> GetROICenter(s)

setROI(s) == Steps(setROIStep, s, 1, 4)

(***************************************************************************)
(* The sensor at power-on and the bounds of the model.                     *)
(***************************************************************************)
MaxPolls == 1

MaxReads == 2

MaxInitFail == 72

\* main.go: for i := 0; i < 10; i++
MainReads == 10

\* milliseconds since startTimeout at a timeout check
Elapsed == {1, 501}

\* what a poll loop meets: <<polls that find the device not ready, time at the
\* timeout check after the last of them>>
Polls == {<<0, 1>>} \cup ((1..MaxPolls) \X Elapsed)

\* the reset values of VHV_CONFIG_INIT and VHV_CONFIG_TIMEOUT_MACROP_LOOP_BOUND,
\* the model ID and the measured oscillator frequency
Hardware ==
    [vhvInit : {0, 139}, vhvLoop : {0, 9},
     modelId : {ModelID}, fosc : {48332}]

PowerOn(hw) ==
    [r \in Regs |->
        CASE r = "IDENTIFICATION_MODEL_ID" -> hw.modelId
          [] r = "OSC_MEASURED_FAST_OSC_FREQUENCY" -> hw.fosc
          [] r = "RESULT_OSC_CALIBRATE_VAL" -> 1000
          [] r = "VHV_CONFIG_INIT" -> hw.vhvInit
          [] r = "VHV_CONFIG_TIMEOUT_MACROP_LOOP_BOUND" -> hw.vhvLoop
          [] r = "PHASECAL_RESULT_VCSEL_START" -> 20
          [] r = "RANGE_CONFIG_VCSEL_PERIOD_A" -> 11
          [] r = "RANGE_CONFIG_VCSEL_PERIOD_B" -> 9
          [] r = "RANGE_CONFIG_TIMEOUT_MACROP_A" -> 29
          [] r = "RANGE_CONFIG_TIMEOUT_MACROP_B" -> 29
          [] r = "ROI_CONFIG_USER_ROI_CENTRE_SPAD" -> 199
          [] r = "ROI_CONFIG_USER_ROI_REQUESTED_GLOBAL_XY_SIZE" -> 255
          [] r = "SYSTEM_INTERMEASUREMENT_PERIOD" -> <<0, 0>>
          [] OTHER -> 0]

Block(status, stream, spads, ambient, range, peak) ==
    [rangeStatus |-> status, streamCount |-> stream,
     dssActualEffectiveSpadsSD0 |-> spads, ambientCountRateMCPS_SD0 |-> ambient,
     finalCrosstalkCorrectedRangeMM_SD0 |-> range,
     peakSignalCountRateCrosstalkCorrectedMCPS_SD0 |-> peak]

\* the result blocks the scene produces in the session specification
Blocks == { Block(9, 1, 4096, 100, 1000, 2000), Block(4, 0, 0, 0, 0, 0) }

\* session: "idle", "open" after a successful StartContinuous, "closed" right
\* after the successful StopContinuous of an open session.  timedOut: a poll
\* has timed out since New was called or since the last TimeoutOccurred.  reads, setups,
\* firstSetup and before describe the session: its successful Reads, the runs
\* of the calibration save, the Read in which the first save ran, and the two
\* VHV registers as they were before its first successful Read.  fetches counts
\* the result blocks fetched since the last successful StopContinuous.
NoHist ==
    [ready |-> FALSE, session |-> "idle", reads |-> 0, setups |-> 0,
     firstSetup |-> 0, fetches |-> 0, before |-> <<0, 0>>, timedOut |-> FALSE]

\* the run ended in the timeout of a poll loop
TimedOut(s) ==
    s.err \in {"timeout waiting for data", "timeout waiting for boot completion"}

Called(op, a, s) == [op |-> op, arg |-> a, err |-> s.err, ret |-> s.ret, log |-> s.log]

\* the entries of a bus log that are successful transactions of kind k on reg
Count(log, k, reg) ==
    Cardinality({i \in 1..Len(log) : log[i].k = k /\ log[i].reg = reg})

VHV(d) == <<d["VHV_CONFIG_INIT"], d["VHV_CONFIG_TIMEOUT_MACROP_LOOP_BOUND"]>>

(***************************************************************************)
(* The calls.  Each one runs a whole handler on the current device and     *)
(* driver struct; fail is the bus transaction of the call that fails.      *)
(***************************************************************************)
Init ==
    \E hw \in Hardware :
        /\ dev = PowerOn(hw)
        /\ drv = new(Short, U32(50))
        /\ last = [op |-> "new", arg |-> <<>>, err |-> "", ret |-> 0, log |-> <<>>]
        /\ hist = NoHist
        /\ arg = [budget |-> U32(50), block |-> Block(9, 1, 4096, 100, 1000, 2000)]
        /\ pc = [at |-> "new", i |-> 0]

\* the history after New: its warm-up was a session of one Read on the
\* registers d
AfterInit(s, d) ==
    [ready |-> Ok(s),
     session |-> IF Ok(s) THEN "closed" ELSE "idle",
     reads |-> IF Ok(s) THEN 1 ELSE 0,
     setups |-> Count(s.log, "r", "VHV_CONFIG_INIT"),
     firstSetup |-> Count(s.log, "r", "VHV_CONFIG_INIT"),
     fetches |-> IF Ok(s) THEN 0 ELSE Count(s.log, "r", "RESULT_RANGE_STATUS"),
     before |-> VHV(d),
     timedOut |-> TimedOut(s)]

\* what the bus and the sensor do during New: every poll outcome on a reliable
\* bus, and every single failed transaction when no poll has to wait
InitInputs ==
    [boot : Polls, poll : Polls, block : Blocks, fail : {0}]
    \cup [boot : {<<0, 1>>}, poll : {<<0, 1>>},
          block : {Block(9, 1, 4096, 100, 1000, 2000)}, fail : 1..MaxInitFail]

\* New: new, then setup, which calls Init; its warm-up is a session of one Read
InitCall ==
    /\ last.op = "new"
    /\ \E in \in InitInputs :
          LET s == InitDevice(Run(dev, drv, in.fail), in.boot[1], in.boot[2],
                              in.poll[1], in.poll[2], in.block)
          IN  /\ dev' = s.dev
              /\ drv' = s.drv
              /\ last' = Called("Init", <<>>, s)
              /\ hist' = AfterInit(s, dev)
              /\ pc' = [at |-> IF Ok(s) THEN "roi" ELSE "exit", i |-> 0]
    /\ UNCHANGED arg

DoStartContinuous(periodMs, fail) ==
    LET s == StartContinuous(Run(dev, drv, fail), U32(periodMs))
    IN  /\ dev' = s.dev
        /\ drv' = s.drv
        /\ last' = Called("StartContinuous", periodMs, s)
        /\ hist' = IF Ok(s) /\ hist.session # "open"
                   THEN [hist EXCEPT !.session = "open", !.reads = 0, !.setups = 0,
                                     !.firstSetup = 0, !.before = <<0, 0>>]
                   ELSE hist

\* what a Read adds to the history
AfterRead(s) ==
    LET saved == Count(s.log, "r", "VHV_CONFIG_INIT")
    IN  [hist EXCEPT
            !.session = IF @ = "closed" THEN "idle" ELSE @,
            !.reads = IF Ok(s) THEN @ + 1 ELSE @,
            !.setups = @ + saved,
            !.firstSetup = IF saved > 0 /\ @ = 0 THEN hist.reads + 1 ELSE @,
            !.fetches = @ + Count(s.log, "r", "RESULT_RANGE_STATUS"),
            !.before = IF Ok(s) /\ hist.reads = 0 THEN VHV(dev) ELSE @,
            !.timedOut = @ \/ TimedOut(s)]

DoRead(blocking, notReady, elapsed, block, fail) ==
    LET s == Read(Run(dev, drv, fail), blocking, notReady, elapsed, block)
    IN  /\ dev' = s.dev
        /\ drv' = s.drv
        /\ last' = Called("Read", blocking, s)
        /\ hist' = AfterRead(s)

DoStopContinuous(fail) ==
    LET s == StopContinuous(Run(dev, drv, fail))
    IN  /\ dev' = s.dev
        /\ drv' = s.drv
        /\ last' = Called("StopContinuous", <<>>, s)
        /\ hist' = IF ~Ok(s) THEN hist
                   ELSE [hist EXCEPT !.session = IF @ = "open" THEN "closed" ELSE "idle",
                                     !.fetches = 0]

(***************************************************************************)
(* The session specification: New, then any sequence of StartContinuous,   *)
(* Read, ReadSingle, StopContinuous and SetTimeout, on a reliable bus.     *)
(***************************************************************************)
StartContinuousCall ==
    /\ hist.ready
    /\ \E periodMs \in {55} : DoStartContinuous(periodMs, 0)
    /\ UNCHANGED <<arg, pc>>

ReadCall ==
    /\ hist.ready
    /\ hist.reads < MaxReads
    /\ \/ \E poll \in Polls, block \in Blocks :
              DoRead(TRUE, poll[1], poll[2], block, 0)
       \/ \E block \in Blocks :
              DoRead(FALSE, 0, 0, block, 0)
    /\ UNCHANGED <<arg, pc>>

ReadSingleCall ==
    /\ hist.ready
    /\ hist.reads < MaxReads
    /\ \E poll \in Polls, block \in Blocks :
          LET s == ReadSingle(Run(dev, drv, 0), poll[1], poll[2], block)
          IN  /\ dev' = s.dev
              /\ drv' = s.drv
              /\ last' = Called("ReadSingle", <<>>, s)
              /\ hist' = AfterRead(s)
    /\ UNCHANGED <<arg, pc>>

StopContinuousCall ==
    /\ hist.ready
    /\ DoStopContinuous(0)
    /\ UNCHANGED <<arg, pc>>

SetTimeoutCall ==
    /\ hist.ready
    /\ \E timeout \in {0, 500} :
          /\ drv.ioTimeout # timeout
          /\ drv' = SetTimeout(drv, timeout)
          /\ last' = [op |-> "SetTimeout", arg |-> timeout, err |-> "", ret |-> 0,
                      log |-> <<>>]
    /\ UNCHANGED <<dev, hist, arg, pc>>

\* New returns the instance even when setup failed
TimeoutOccurredCall ==
    /\ last.op # "new"
    /\ LET s == TimeoutOccurred(Run(dev, drv, 0))
       IN  /\ drv' = s.drv
           /\ last' = Called("TimeoutOccurred", <<>>, s)
           /\ hist' = [hist EXCEPT !.timedOut = FALSE]
    /\ UNCHANGED <<dev, arg, pc>>

Next ==
    \/ InitCall
    \/ StartContinuousCall
    \/ ReadCall
    \/ ReadSingleCall
    \/ StopContinuousCall
    \/ SetTimeoutCall
    \/ TimeoutOccurredCall

Spec == Init /\ [][Next]_vars

(***************************************************************************)
(* The example program: New, setROI, StartContinuous(55), ten blocking     *)
(* Reads whose errors are only logged, StopContinuous.                     *)
(***************************************************************************)
MainSetROI ==
    /\ pc.at = "roi"
    /\ LET s == setROI(Run(dev, drv, 0))
       IN  /\ dev' = s.dev
           /\ drv' = s.drv
           /\ last' = Called("setROI", <<>>, s)
           /\ pc' = [at |-> IF Ok(s) THEN "start" ELSE "exit", i |-> 0]
    /\ UNCHANGED <<hist, arg>>

MainStart ==
    /\ pc.at = "start"
    /\ DoStartContinuous(55, 0)
    /\ pc' = [at |-> IF last'.err = "" THEN "read" ELSE "exit", i |-> 0]
    /\ UNCHANGED arg

MainRead ==
    /\ pc.at = "read"
    /\ \E poll \in Polls, block \in Blocks :
          DoRead(TRUE, poll[1], poll[2], block, 0)
    /\ pc' = [at |-> IF pc.i + 1 < MainReads THEN "read" ELSE "stop", i |-> pc.i + 1]
    /\ UNCHANGED arg

MainStop ==
    /\ pc.at = "stop"
    /\ DoStopContinuous(0)
    /\ pc' = [pc EXCEPT !.at = IF last'.err = "" THEN "done" ELSE "exit"]
    /\ UNCHANGED arg

MainNext ==
    \/ InitCall
    \/ MainSetROI
    \/ MainStart
    \/ MainRead
    \/ MainStop

SpecMain == Init /\ [][MainNext]_vars

(***************************************************************************)
(* Calibration state across a ranging session.                             *)
(***************************************************************************)
\* C1: within a session the calibration setup (the save of the two VHV
\* registers and the overrides) runs at most once, the calibrated flag is true
\* only after a result block was fetched, and in the example program (start,
\* ten blocking reads that all succeed, stop) the save runs exactly once, in
\* the first read, and the stop writes each saved register back exactly once.
C1_CalibrationOncePerSession ==
    /\ hist.setups <= 1
    /\ drv.calibrated => hist.fetches >= 1
    /\ (pc.at = "done" /\ hist.reads = MainReads) =>
          /\ hist.setups = 1
          /\ hist.firstSetup = 1
          /\ Count(last.log, "w", "VHV_CONFIG_INIT") = 1
          /\ Count(last.log, "w", "VHV_CONFIG_TIMEOUT_MACROP_LOOP_BOUND") = 1

\* C2: after a successful StartContinuous the calibrated flag is false whatever
\* came before, so the first successful Read of a session runs the setup.
C2_StartResetsCalibrated ==
    /\ (last.op = "StartContinuous" /\ last.err = "") => ~drv.calibrated
    /\ (hist.session = "open" /\ last.op = "Read" /\ last.err = "" /\ hist.reads = 1)
          => Count(last.log, "r", "VHV_CONFIG_INIT") = 1

\* C3: when a session with at least one successful Read has been stopped
\* successfully, the two VHV registers hold the values they had before the
\* session's first read and PHASECAL_CONFIG_OVERRIDE is 0.
C3_StopRestoresVHV ==
    (/\ hist.session = "closed"
     /\ hist.reads >= 1
     /\ last.op \in {"StopContinuous", "Init"}
     /\ last.err = "")
    => /\ VHV(dev) = hist.before
       /\ dev["PHASECAL_CONFIG_OVERRIDE"] = 0

\* C4: a Read that returns successfully has written
\* DSS_CONFIG_MANUAL_EFFECTIVE_SPADS_SELECT exactly once, after the fetch of the
\* result block and before the interrupt clear, and the interrupt clear is its
\* last bus transaction and its last write.
C4_DSSWrittenOncePerRead ==
    (last.op \in {"Read", "ReadSingle"} /\ last.err = "") =>
        LET log == last.log
            n == Len(log)
        IN  /\ Count(log, "w", "DSS_CONFIG_MANUAL_EFFECTIVE_SPADS_SELECT") = 1
            /\ Count(log, "r", "RESULT_RANGE_STATUS") = 1
            /\ \E f \in 1..n, d \in 1..n :
                  /\ f < d /\ d < n
                  /\ log[f].k = "r" /\ log[f].reg = "RESULT_RANGE_STATUS"
                  /\ log[d].k = "w"
                  /\ log[d].reg = "DSS_CONFIG_MANUAL_EFFECTIVE_SPADS_SELECT"
                  /\ \A j \in (d + 1)..(n - 1) : log[j].k # "w"
            /\ log[n] = [k |-> "w", reg |-> "SYSTEM_INTERRUPT_CLEAR", val |-> 1]

\* a later, non-blocking Read of an open session has returned a block that
\* reports no effective SPADs
C4_Witness ==
    /\ last.op = "Read" /\ last.err = "" /\ last.arg = FALSE
    /\ hist.session = "open" /\ hist.reads = 2
    /\ drv.results.dssActualEffectiveSpadsSD0 = 0

(***************************************************************************)
(* The DSS specification: a driver made by New on a sensor that answers at *)
(* once, and a scene that keeps producing one result block (arg.block).    *)
(***************************************************************************)
Nominal(fosc) == [vhvInit |-> 139, vhvLoop |-> 9, modelId |-> ModelID, fosc |-> fosc]

\* New(mode, budget) on a reliable bus, the sensor ready at every first poll
NewDevice(hw, mode, budget) ==
    InitDevice(Run(PowerOn(hw), new(mode, budget), 0), 0, 1, 0, 1,
               Block(9, 1, 4096, 100, 1000, 2000))

\* SPAD counts, peak rates and ambient rates at the edges of 16 bits
DSSBlocks ==
    { Block(9, 1, spads, ambient, 1000, peak) :
        spads \in {0, 1, 255, 256, 4096, 32768, 65535},
        peak \in {0, 1, 2560, 32768, 65535},
        ambient \in {0, 1, 100, 32767, 65535} }

InitDSS ==
    \E s \in {NewDevice(Nominal(48332), Short, U32(50))}, block \in DSSBlocks :
        /\ dev = s.dev
        /\ drv = s.drv
        /\ last = Called("Init", <<>>, s)
        /\ hist = AfterInit(s, PowerOn(Nominal(48332)))
        /\ arg = [budget |-> U32(50), block |-> block]
        /\ pc = [at |-> "roi", i |-> 0]

DSSStart ==
    /\ DoStartContinuous(55, 0)
    /\ UNCHANGED <<arg, pc>>

DSSRead ==
    /\ hist.reads < MaxReads
    /\ \E blocking \in BOOLEAN : DoRead(blocking, 0, 1, arg.block, 0)
    /\ UNCHANGED <<arg, pc>>

DSSStop ==
    /\ DoStopContinuous(0)
    /\ UNCHANGED <<arg, pc>>

NextDSS ==
    \/ DSSStart
    \/ DSSRead
    \/ DSSStop

SpecDSS == InitDSS /\ [][NextDSS]_vars

\* The value the DSS update has to write, in unbounded integer arithmetic:
\* with t = min(peak + ambient, 0xFFFF) and q = (t * 2^16) div spads, it is
\* 0x8000 when spads = 0 or q = 0 and min((0x0A00 * 2^16) div q, 0xFFFF)
\* otherwise.  q is built from the quotient t div spads and two base-256 digits
\* so that no product exceeds 2^31; when t div spads > 0x0A00, q exceeds
\* 0x0A00 * 2^16 and the result is 0.
ExpectedDSS(block) ==
    LET spads == block.dssActualEffectiveSpadsSD0
        sum == block.peakSignalCountRateCrosstalkCorrectedMCPS_SD0
                 + block.ambientCountRateMCPS_SD0
        t == IF sum > 65535 THEN 65535 ELSE sum
        d1 == ((t % spads) * 256) \div spads
        r1 == ((t % spads) * 256) % spads
        d2 == (r1 * 256) \div spads
        q == (t \div spads) * 65536 + d1 * 256 + d2
    IN  IF spads = 0 THEN 32768
        ELSE IF t \div spads > 2560 THEN 0
        ELSE IF q = 0 THEN 32768
        ELSE IF (2560 * 65536) \div q > 65535 THEN 65535
        ELSE (2560 * 65536) \div q

\* C5: for every result block the DSS update of a Read writes the
\* manual-SPAD-select register exactly once with 0x8000 when the SPAD count or
\* the rate per SPAD is 0 and with min((0x0A00 << 16) div q, 0xFFFF) otherwise,
\* the value unbounded arithmetic gives, and the Read does not fail.
C5_DSSValue ==
    last.op = "Read" =>
        /\ last.err = ""
        /\ drv.results = arg.block
        /\ Count(last.log, "w", "DSS_CONFIG_MANUAL_EFFECTIVE_SPADS_SELECT") = 1
        /\ dev["DSS_CONFIG_MANUAL_EFFECTIVE_SPADS_SELECT"] = ExpectedDSS(arg.block)

\* a Read has met a block whose rates add up to more than 16 bits hold and
\* whose SPAD count is the largest one
C5_Witness ==
    /\ last.op = "Read" /\ last.err = ""
    /\ arg.block.dssActualEffectiveSpadsSD0 = 65535
    /\ arg.block.peakSignalCountRateCrosstalkCorrectedMCPS_SD0 = 65535
    /\ arg.block.ambientCountRateMCPS_SD0 = 65535
    /\ dev["DSS_CONFIG_MANUAL_EFFECTIVE_SPADS_SELECT"] = 2560

(***************************************************************************)
(* The budget specification: a driver made by New in one of the three      *)
(* distance modes, then SetMeasurementTimingBudget(arg.budget) and         *)
(* GetMeasurementTimingBudget in any order, on a reliable bus.             *)
(***************************************************************************)
MaxBudget == 1000

MaxBudgetCalls == 2

MaxModeCalls == 3

\* the largest budget in ms whose range timeout passes the upper check
LargestBudget == (2 * 1100000 + TimingGuard) \div 1000

\* every budget up to MaxBudget ms, the budgets around the upper limit of the
\* range check and around the wrap of timeoutUs << 12, and three budgets
\* whose product with 1000 does not fit 32 bits
Budgets ==
    { U32(b) : b \in 0..MaxBudget }
    \cup { U32(2101), U32(2102), U32(LargestBudget), U32(LargestBudget + 1) }
    \cup { <<65, 35128>>, <<65, 35133>>, <<65535, 65535>> }

\* the call before a call: what it was and what it returned
Brief(l) == [op |-> l.op, arg |-> l.arg, err |-> l.err, ret |-> l.ret]

\* a call record that also keeps the two calls before it, the nearer first
CalledAfter(op, a, s) ==
    [op |-> op, arg |-> a, err |-> s.err, ret |-> s.ret, log |-> s.log,
     after |-> <<Brief(last)>>
               \o (IF "after" \in DOMAIN last /\ Len(last.after) > 0
                   THEN <<last.after[1]>> ELSE <<>>)]

\* the state after New(mode, budget) on the sensor hw
AfterNew(hw, mode, budget, a) ==
    \E s \in {NewDevice(hw, mode, budget)} :
        /\ dev = s.dev
        /\ drv = s.drv
        /\ last = Called("Init", <<>>, s)
        /\ hist = AfterInit(s, PowerOn(hw))
        /\ arg = a
        /\ pc = [at |-> "calls", i |-> 0]

InitBudget ==
    \E mode \in {Short, Medium, Long}, b \in Budgets :
        AfterNew(Nominal(48332), mode, U32(50),
                 [budget |-> b, block |-> Block(9, 1, 4096, 100, 1000, 2000)])

DoSetMeasurementTimingBudget(budget) ==
    LET s == SetMeasurementTimingBudget(Run(dev, drv, 0), budget)
    IN  /\ dev' = s.dev
        /\ drv' = s.drv
        /\ last' = CalledAfter("SetMeasurementTimingBudget", budget, s)
        /\ pc' = [pc EXCEPT !.i = @ + 1]
        /\ UNCHANGED <<hist, arg>>

DoGetMeasurementTimingBudget ==
    LET s == GetMeasurementTimingBudget(Run(dev, drv, 0))
    IN  /\ dev' = s.dev
        /\ drv' = s.drv
        /\ last' = CalledAfter("GetMeasurementTimingBudget", <<>>, s)
        /\ pc' = [pc EXCEPT !.i = @ + 1]
        /\ UNCHANGED <<hist, arg>>

SetBudgetCall ==
    /\ pc.i < MaxBudgetCalls
    /\ DoSetMeasurementTimingBudget(arg.budget)

GetBudgetCall ==
    /\ pc.i < MaxBudgetCalls
    /\ DoGetMeasurementTimingBudget

NextBudget ==
    \/ SetBudgetCall
    \/ GetBudgetCall

SpecBudget == InitBudget /\ [][NextBudget]_vars

\* GetMeasurementTimingBudget has returned right after a successful
\* SetMeasurementTimingBudget(arg.budget)
GetAfterSet ==
    /\ last.op = "GetMeasurementTimingBudget" /\ last.err = ""
    /\ last.after[1].op = "SetMeasurementTimingBudget" /\ last.after[1].err = ""

\* two uint32 that differ by at most 1
WithinOne(a, b) == LeU(a, AddU(b, <<0, 1>>)) /\ LeU(b, AddU(a, <<0, 1>>))

\* C6, as the specification states it: for every budget b in [33, 1000] ms, in
\* each distance mode, GetMeasurementTimingBudget right after a successful
\* SetMeasurementTimingBudget(b) returns g with |g - b| <= 1.
C6_RoundTripWithinOne ==
    (GetAfterSet /\ Small(arg.budget) /\ Val(arg.budget) \in 33..1000)
    => WithinOne(last.ret, arg.budget)

\* C6, amended: for every budget b in [33, 1000] ms, in each distance mode,
\* GetMeasurementTimingBudget right after a successful
\* SetMeasurementTimingBudget(b) returns g with g <= b and
\* b - g <= 1 + b div 128: the register keeps the timeout with eight
\* significant bits and every conversion rounds down.
C6_BudgetRoundTrip ==
    (GetAfterSet /\ Small(arg.budget) /\ Val(arg.budget) \in 33..1000)
    => /\ Small(last.ret)
       /\ Val(last.ret) <= Val(arg.budget)
       /\ Val(arg.budget) - Val(last.ret) <= 1 + (Val(arg.budget) \div 128)

\* the budget of 823 ms has been set in Short mode and read back 7 ms short
C6_Witness ==
    /\ GetAfterSet
    /\ GetDistanceMode(drv) = Short
    /\ arg.budget = U32(823)
    /\ last.ret = U32(816)

\* C7: for every budget b that SetMeasurementTimingBudget accepts,
\* GetMeasurementTimingBudget right after the successful call returns b up to
\* 1 ms: no 32-bit intermediate (timeoutUs << 12, mclks * macroPeriod) wraps.
C7_RederivableWhenAccepted ==
    GetAfterSet => WithinOne(last.ret, arg.budget)

\* C8: SetMeasurementTimingBudget(b) returns an error without a bus
\* transaction for every 32-bit b with b * 1000 <= 4528 and for every 32-bit b
\* with (b * 1000 - 4528) / 2 > 1100000, the products taken as numbers: that is
\* b <= TimingGuard div 1000, or b > LargestBudget.
C8_InvalidBudgetRejected ==
    (/\ last.op = "SetMeasurementTimingBudget"
     /\ \/ LeU(last.arg, U32(TimingGuard \div 1000))
        \/ LtU(U32(LargestBudget), last.arg))
    => /\ last.err \in {"timing budget too low", "timing budget too high"}
       /\ last.log = <<>>

\* C9: SetMeasurementTimingBudget rejects a budget below 20 ms in every
\* distance mode and a budget below 33 ms in Medium and Long mode.
C9_PerModeMinimum ==
    (/\ last.op = "SetMeasurementTimingBudget"
     /\ Small(last.arg)
     /\ \/ Val(last.arg) < 20
        \/ Val(last.arg) < 33 /\ GetDistanceMode(drv) \in {Medium, Long})
    => last.err # ""

(***************************************************************************)
(* The distance mode specification: a driver made by New in one of the     *)
(* three distance modes with one of a few budgets, then SetDistanceMode    *)
(* and GetMeasurementTimingBudget in any order, on a reliable bus.         *)
(***************************************************************************)
\* budgets in ms given to New; 3 is not a distance mode
ModeBudgets == {20, 33, 50, 100, 140, 200, 500, 1000}

InitMode ==
    \E mode \in {Short, Medium, Long}, b \in ModeBudgets :
        AfterNew(Nominal(48332), mode, U32(b),
                 [budget |-> U32(b), block |-> Block(9, 1, 4096, 100, 1000, 2000)])

SetDistanceModeCall ==
    /\ pc.i < MaxModeCalls
    /\ \E mode \in {Short, Medium, Long, 3} :
          LET s == SetDistanceMode(Run(dev, drv, 0), mode)
          IN  /\ dev' = s.dev
              /\ drv' = s.drv
              /\ last' = CalledAfter("SetDistanceMode", mode, s)
              /\ pc' = [pc EXCEPT !.i = @ + 1]
    /\ UNCHANGED <<hist, arg>>

GetBudgetInModeCall ==
    /\ pc.i < MaxModeCalls
    /\ DoGetMeasurementTimingBudget

NextMode ==
    \/ GetBudgetInModeCall
    \/ SetDistanceModeCall

SpecMode == InitMode /\ [][NextMode]_vars

\* C10: for every pair of distance modes and every budget set before,
\* GetMeasurementTimingBudget right after a successful SetDistanceMode returns
\* the number of milliseconds it returned right before that call.
C10_ModeChangeKeepsBudget ==
    (/\ last.op = "GetMeasurementTimingBudget" /\ last.err = ""
     /\ Len(last.after) = 2
     /\ last.after[1].op = "SetDistanceMode" /\ last.after[1].err = ""
     /\ last.after[2].op = "GetMeasurementTimingBudget" /\ last.after[2].err = "")
    => last.ret = last.after[2].ret

(***************************************************************************)
(* Properties of single steps are stated over the part of the state whose  *)
(* values can be compared from one call to the next: the registers, the    *)
(* struct, the history, and the name, error and bus log of the last call.  *)
(***************************************************************************)
observed == <<dev, drv, hist, pc, last.op, last.err, last.log>>

\* C11: SetDistanceMode is idempotent: a successful SetDistanceMode(m) right
\* after a successful SetDistanceMode(m) leaves every device register as the
\* first call left it, GetMeasurementTimingBudget returns afterwards what it
\* returned after the first call, and that is the budget the first call found.
C11_SetDistanceModeIdempotent ==
    [][(/\ last.op = "SetDistanceMode" /\ last.err = ""
        /\ last'.op = "SetDistanceMode" /\ last'.err = ""
        /\ last'.arg = last.arg)
       => /\ dev' = dev
          /\ GetMeasurementTimingBudget(Run(dev', drv', 0)).ret
                = GetMeasurementTimingBudget(Run(dev, drv, 0)).ret
          /\ GetMeasurementTimingBudget(Run(dev', drv', 0)).ret = last.ret]_observed

\* C12: SetDistanceMode(m) with m outside {Short, Medium, Long} returns an
\* error, writes no device register (its bus log holds reads only and the
\* registers are as before), and leaves the mode of GetDistanceMode unchanged.
C12_UnrecognizedModeRejected ==
    [][(last'.op = "SetDistanceMode" /\ last'.arg \notin {Short, Medium, Long})
       => /\ last'.err = "unrecognized distance mode"
          /\ \A j \in 1..Len(last'.log) : last'.log[j].k = "r"
          /\ dev' = dev
          /\ GetDistanceMode(drv') = GetDistanceMode(drv)]_observed

\* SetDistanceMode(3) has returned on a driver in Long mode after a successful
\* change of the mode
C12_Witness ==
    /\ last.op = "SetDistanceMode" /\ last.arg = 3 /\ last.err # ""
    /\ last.after[1].op = "SetDistanceMode" /\ last.after[1].err = ""
    /\ last.after[1].arg = Long
    /\ GetDistanceMode(drv) = Long

\* C13: a StopContinuous called while no session is open (before any
\* StartContinuous, or after a StopContinuous with no new start) changes no
\* device register and writes no saved VHV value.
C13_StopWhenIdleIsNoOp ==
    [][(last'.op = "StopContinuous" /\ hist.session # "open")
       => /\ dev' = dev
          /\ Count(last'.log, "w", "VHV_CONFIG_INIT") = 0
          /\ Count(last'.log, "w", "VHV_CONFIG_TIMEOUT_MACROP_LOOP_BOUND") = 0]_observed

\* C14: a Read, blocking or not, called while no continuous session is open
\* and no single shot was started returns an error, fetches no result block,
\* and writes no register (so it runs no calibration setup and no DSS update).
C14_ReadWhileIdleIllegal ==
    (last.op = "Read" /\ hist.session = "idle")
    => /\ last.err # ""
       /\ Count(last.log, "r", "RESULT_RANGE_STATUS") = 0
       /\ \A j \in 1..Len(last.log) : last.log[j].k # "w"

\* C15: a blocking Read that finds the device not ready until the I/O timeout
\* (> 0) has elapsed returns the timeout error with the timeout flag set, and
\* leaves the session as it was: calibrated and the saved VHV values are
\* unchanged, no register changes, and the Read's bus transactions are reads
\* of GPIO_TIO_HV_STATUS only (no result fetch, DSS write, interrupt clear or
\* start/abort command).
C15_TimeoutLeavesSession ==
    [][(last'.op = "Read" /\ last'.err = "timeout waiting for data")
       => /\ drv.ioTimeout > 0
          /\ drv'.didTimeout
          /\ drv'.calibrated = drv.calibrated
          /\ drv'.savedVHVInit = drv.savedVHVInit
          /\ drv'.savedVHVTimeout = drv.savedVHVTimeout
          /\ dev' = dev
          /\ Len(last'.log) >= 1
          /\ \A j \in 1..Len(last'.log) :
                last'.log[j].k = "r" /\ last'.log[j].reg = "GPIO_TIO_HV_STATUS"]_observed

\* a later Read of an open, calibrated session has timed out
C15_Witness ==
    /\ last.op = "Read" /\ last.arg = TRUE /\ last.err = "timeout waiting for data"
    /\ hist.session = "open" /\ hist.reads = 1
    /\ drv.calibrated /\ drv.didTimeout

(***************************************************************************)
(* The poll loop of a blocking Read, one statement at a time (range.go     *)
(* 120-142).  arg is the time since startTimeout in milliseconds, counted  *)
(* up to MaxClock; hist counts the polls of the Read in progress up to     *)
(* MaxPollCount and remembers how the loop was left.  pc.at is "idle",     *)
(* "poll" (before dataReady), "check" (before checkTimeoutExpired),        *)
(* "sleep" (before time.Sleep) or "done" (Read has returned).              *)
(***************************************************************************)
MaxClock == 5
MaxPollCount == 3
MaxPollReads == 2

\* the I/O timeouts in milliseconds
PollTimeouts == {0, 1, 3}

Started(timeout) ==
    LET s == NewDevice(Nominal(48332), Long, U32(50))
    IN  StartContinuous(Run(s.dev, SetTimeout(s.drv, timeout), 0), U32(50))

InitPoll ==
    \E timeout \in PollTimeouts :
        \E s \in {Started(timeout)} :
            /\ dev = s.dev
            /\ drv = s.drv
            /\ last = [op |-> "StartContinuous", arg |-> TRUE, err |-> s.err,
                       ret |-> NoRangingData, log |-> <<>>]
            /\ hist = [polls |-> 0, sawReady |-> FALSE, busFailed |-> FALSE, reads |-> 0]
            /\ arg = 0
            /\ pc = [at |-> "idle", i |-> 0]

\* Read(true) is called: startTimeout
PollBegin ==
    /\ pc.at = "idle"
    /\ hist.reads < MaxPollReads
    /\ pc' = [pc EXCEPT !.at = "poll"]
    /\ arg' = 0
    /\ hist' = [polls |-> 0, sawReady |-> FALSE, busFailed |-> FALSE,
                reads |-> hist.reads + 1]
    /\ last' = [op |-> "Read", arg |-> TRUE, err |-> "", ret |-> NoRangingData,
                log |-> <<>>]
    /\ UNCHANGED <<dev, drv>>

\* what follows the loop, in one step
AfterPoll(s, block) ==
    orNoData(Steps(LAMBDA t, i : readStep(t, i, TRUE, 0, 0, block), s, 2, 6))

\* one dataReady: the bus fails, or the sensor answers with bit 0 set or clear;
\* a ready sensor ends the loop and Read runs to its return
PollDataReady ==
    /\ pc.at = "poll"
    /\ \E status \in {2, 3}, fail \in {0, 1}, failAfter \in {0, 1} :
          LET s == dataReady(Run(dev, drv, fail), status)
              t == AfterPoll(Run(dev, drv, failAfter), Block(9, 1, 4096, 100, 1000, 2000))
              polls == IF hist.polls < MaxPollCount THEN hist.polls + 1 ELSE hist.polls
          IN  IF ~Ok(s)
              THEN /\ failAfter = 0
                   /\ pc' = [pc EXCEPT !.at = "done"]
                   /\ hist' = [hist EXCEPT !.polls = polls, !.busFailed = TRUE]
                   /\ last' = [last EXCEPT !.err = s.err]
                   /\ UNCHANGED <<dev, drv>>
              ELSE IF s.val
              THEN /\ pc' = [pc EXCEPT !.at = "done"]
                   /\ hist' = [hist EXCEPT !.polls = polls, !.sawReady = TRUE,
                                           !.busFailed = ~Ok(t)]
                   /\ last' = [last EXCEPT !.err = t.err, !.ret = t.ret]
                   /\ dev' = t.dev
                   /\ drv' = t.drv
              ELSE /\ failAfter = 0
                   /\ pc' = [pc EXCEPT !.at = "check"]
                   /\ hist' = [hist EXCEPT !.polls = polls]
                   /\ UNCHANGED <<dev, drv, last>>
    /\ UNCHANGED arg

\* checkTimeoutExpired after a poll that found the sensor not ready
PollCheck ==
    /\ pc.at = "check"
    /\ IF checkTimeoutExpired(drv, arg)
       THEN /\ drv' = [drv EXCEPT !.didTimeout = TRUE]
            /\ last' = [last EXCEPT !.err = "timeout waiting for data"]
            /\ pc' = [pc EXCEPT !.at = "done"]
       ELSE /\ pc' = [pc EXCEPT !.at = "sleep"]
            /\ UNCHANGED <<drv, last>>
    /\ UNCHANGED <<dev, hist, arg>>

\* time.Sleep(1 * time.Millisecond) returns after one millisecond or more
PollSleep ==
    /\ pc.at = "sleep"
    /\ \E d \in {1, 2} :
          arg' = IF arg + d < MaxClock THEN arg + d ELSE MaxClock
    /\ pc' = [pc EXCEPT !.at = "poll"]
    /\ UNCHANGED <<dev, drv, last, hist>>

\* the caller takes the result
PollReturn ==
    /\ pc.at = "done"
    /\ pc' = [pc EXCEPT !.at = "idle"]
    /\ UNCHANGED <<dev, drv, last, hist, arg>>

NextPoll ==
    \/ PollBegin
    \/ PollDataReady
    \/ PollCheck
    \/ PollSleep
    \/ PollReturn

\* the goroutine that called Read keeps running: every statement of the loop
\* completes
SpecPoll ==
    /\ InitPoll
    /\ [][NextPoll]_vars
    /\ WF_vars(PollDataReady)
    /\ WF_vars(PollCheck)
    /\ WF_vars(PollSleep)

\* C16: with I/O timeout 0 a blocking Read never returns the timeout error, it
\* returns only after a poll saw the sensor ready or a bus transaction failed;
\* with an I/O timeout > 0, and the clock advancing at every sleep between
\* polls, a blocking Read that is in progress eventually returns.
C16_BlockingReadReturns ==
    /\ []((pc.at = "done" /\ drv.ioTimeout = 0)
              => /\ last.err # "timeout waiting for data"
                 /\ hist.sawReady \/ hist.busFailed)
    /\ []((pc.at \in {"poll", "check", "sleep"} /\ drv.ioTimeout > 0)
              => <>(pc.at = "done"))

\* without a timeout, a Read has returned data after MaxPollCount polls or
\* more, long after the clock reached MaxClock
C16_Witness ==
    /\ pc.at = "done" /\ drv.ioTimeout = 0
    /\ hist.polls = MaxPollCount /\ arg = MaxClock
    /\ hist.sawReady /\ last.err = ""

\* C17: TimeoutOccurred returns true exactly when a poll (of Read or of the
\* boot completion) has timed out since the previous TimeoutOccurred or since
\* creation, and it clears the flag, so that a second call with no timeout in
\* between returns false; no other operation clears the flag.
C17_TimeoutOccurredOneShot ==
    [][/\ last'.op = "TimeoutOccurred"
          => /\ last'.ret = hist.timedOut
             /\ ~drv'.didTimeout
             /\ last.op = "TimeoutOccurred" => last'.ret = FALSE
       /\ (last'.op # "TimeoutOccurred" /\ drv.didTimeout) => drv'.didTimeout]_observed

\* TimeoutOccurred has answered true after a timed-out Read that was followed
\* by a successful Read
C17_Witness ==
    /\ last.op = "TimeoutOccurred" /\ last.ret = TRUE
    /\ hist.ready /\ hist.reads = 2 /\ ~drv.didTimeout
    /\ hist.session = "open"

(***************************************************************************)
(* The timeout codec on its own: a timeout in MCLKs is encoded and the     *)
(* register value decoded again.  arg.n is the timeout (a uint32); arg.reg *)
(* is the register value it was decoded from, or -1 when it was given as a *)
(* number.  pc.at is "n", "encoded" or "decoded".                          *)
(***************************************************************************)
MaxShift == 32
MaxMclks == 600

\* register values: every low byte with the shift counts up to MaxShift
CodecRegs == { msb * 256 + lsb : msb \in 0..MaxShift, lsb \in 0..255 }

InitCodec ==
    /\ dev = PowerOn(Nominal(48332))
    /\ drv = new(Long, U32(50))
    /\ hist = NoHist
    /\ last = [op |-> "new", arg |-> <<>>, err |-> "", ret |-> 0, log |-> <<>>]
    /\ pc = [at |-> "n", i |-> 0]
    /\ \/ \E r \in CodecRegs : arg = [n |-> decodeTimeout(r), reg |-> r]
       \/ \E n \in 0..MaxMclks : arg = [n |-> U32(n), reg |-> -1]

EncodeTimeoutCall ==
    /\ pc.at = "n"
    /\ last' = [op |-> "encodeTimeout", arg |-> arg.n, err |-> "",
                ret |-> encodeTimeout(arg.n), log |-> <<>>]
    /\ pc' = [pc EXCEPT !.at = "encoded"]
    /\ UNCHANGED <<dev, drv, hist, arg>>

DecodeTimeoutCall ==
    /\ pc.at = "encoded"
    /\ last' = [op |-> "decodeTimeout", arg |-> last.ret, err |-> "",
                ret |-> decodeTimeout(last.ret), log |-> <<>>]
    /\ pc' = [pc EXCEPT !.at = "decoded"]
    /\ UNCHANGED <<dev, drv, hist, arg>>

NextCodec ==
    \/ EncodeTimeoutCall
    \/ DecodeTimeoutCall

SpecCodec == InitCodec /\ [][NextCodec]_vars

\* n is the timeout of some register value: n - 1 is a byte shifted left
Representable(n) ==
    /\ LtU(<<0, 0>>, n)
    /\ \E k \in 0..31 :
          LET x == ShrU(SubU(n, <<0, 1>>), k)
          IN  x[1] = 0 /\ x[2] < 256 /\ EqU(ShlU(x, k), SubU(n, <<0, 1>>))

\* C18: decodeTimeout(encodeTimeout(n)) = n for every representable timeout n
\* (every value decodeTimeout gives for a register value is one);
\* encodeTimeout(0) = 0, and for n > 0 encodeTimeout(n) holds the shift count
\* in its high byte and n - 1 shifted right by it in its low byte, the shift
\* count being the least that leaves a byte; decodeTimeout(r) is
\* ((r & 0xFF) << (r >> 8)) + 1.
C18_TimeoutCodecRoundTrip ==
    /\ arg.reg # -1 => Representable(arg.n)
    /\ (pc.at = "encoded" /\ EqU(arg.n, <<0, 0>>)) => last.ret = 0
    /\ (pc.at = "encoded" /\ LtU(<<0, 0>>, arg.n))
          => LET k == last.ret \div 256
                 x == SubU(arg.n, <<0, 1>>)
             IN  /\ EqU(ShrU(x, k), <<0, last.ret % 256>>)
                 /\ k > 0 => LeU(<<0, 256>>, ShrU(x, k - 1))
    /\ pc.at = "decoded"
          => /\ EqU(last.ret, AddU(ShlU(<<0, last.arg % 256>>, last.arg \div 256),
                                   <<0, 1>>))
             /\ Representable(arg.n) => EqU(last.ret, arg.n)

\* the timeout 3 of register value 0x0101 has come back from register value 2
C18_Witness ==
    /\ pc.at = "decoded" /\ arg.reg = 257
    /\ arg.n = <<0, 3>> /\ last.arg = 2 /\ last.ret = <<0, 3>>

(***************************************************************************)
(* The decoding of a result block.  arg is the block.  Either the sensor   *)
(* of a started session delivers it to a Read (pc.at = "fetch"), or it is  *)
(* in the results buffer already and getRangingData decodes it (pc.at =    *)
(* "fetched"); pc.at is "decoded" afterwards.                              *)
(***************************************************************************)
\* every status byte with stream counts 0, 1 and 255
StatusBlocks ==
    { Block(status, stream, 4096, 100, 1000, 2000) :
        status \in 0..255, stream \in {0, 1, 255} }

\* every raw range
RangeBlocks == { Block(9, 1, 4096, 100, range, 2000) : range \in 0..(W16 - 1) }

InitDecode ==
    \E s \in {Started(500)} :
        /\ dev = s.dev
        /\ last = [op |-> "StartContinuous", arg |-> 50, err |-> s.err,
                   ret |-> NoRangingData, log |-> <<>>]
        /\ hist = NoHist
        /\ \/ /\ arg \in StatusBlocks
              /\ drv = s.drv
              /\ pc = [at |-> "fetch", i |-> 0]
           \/ /\ arg \in RangeBlocks
              /\ drv = [s.drv EXCEPT !.results = arg]
              /\ pc = [at |-> "fetched", i |-> 0]

DecodeRead ==
    /\ pc.at = "fetch"
    /\ \E blocking \in BOOLEAN :
          LET s == Read(Run(dev, drv, 0), blocking, 0, 1, arg)
          IN  /\ dev' = s.dev
              /\ drv' = s.drv
              /\ last' = [op |-> "Read", arg |-> blocking, err |-> s.err,
                          ret |-> s.ret, log |-> <<>>]
    /\ pc' = [pc EXCEPT !.at = "decoded"]
    /\ UNCHANGED <<hist, arg>>

GetRangingDataCall ==
    /\ pc.at = "fetched"
    /\ last' = [op |-> "getRangingData", arg |-> FALSE, err |-> "",
                ret |-> getRangingData(drv), log |-> <<>>]
    /\ pc' = [pc EXCEPT !.at = "decoded"]
    /\ UNCHANGED <<dev, drv, hist, arg>>

NextDecode ==
    \/ DecodeRead
    \/ GetRangingDataCall

SpecDecode == InitDecode /\ [][NextDecode]_vars

\* the status bytes that have a meaning, but for 9
StatusTable ==
    (1 :> HardwareFail) @@ (2 :> HardwareFail) @@ (3 :> HardwareFail)
    @@ (17 :> HardwareFail) @@ (13 :> MinRangeFail) @@ (18 :> SynchronizationInt)
    @@ (5 :> OutOfBoundsFail) @@ (4 :> SignalFail) @@ (6 :> SigmaFail)
    @@ (7 :> WrapTargetFail) @@ (12 :> XtalkSignalFail)
    @@ (8 :> RangeValidMinRangeClipped)

\* C19: the status of a Read is a function of the raw status byte and the
\* stream count alone: 1, 2, 3, 17 give HardwareFail, 13 MinRangeFail,
\* 18 SynchronizationInt, 5 OutOfBoundsFail, 4 SignalFail, 6 SigmaFail,
\* 7 WrapTargetFail, 12 XtalkSignalFail, 8 RangeValidMinRangeClipped,
\* 9 RangeValidNoWrapCheckFail with stream count 0 and RangeValid otherwise;
\* every other byte gives NoneStatus, and no byte makes the Read fail.
C19_StatusDecoding ==
    pc.at = "decoded"
    => /\ last.err = ""
       /\ last.ret.RangeStatus =
             IF arg.rangeStatus = 9
             THEN IF arg.streamCount = 0 THEN RangeValidNoWrapCheckFail ELSE RangeValid
             ELSE IF arg.rangeStatus \in DOMAIN StatusTable
             THEN StatusTable[arg.rangeStatus]
             ELSE NoneStatus

\* status 9 with stream count 0 has been decoded
C19_Witness ==
    /\ pc.at = "decoded" /\ arg.rangeStatus = 9 /\ arg.streamCount = 0
    /\ last.ret.RangeStatus = RangeValidNoWrapCheckFail

\* C20: for every 16-bit raw range r, RangeMM is (r * 2011 + 1024) div 2048:
\* the sum stays below 2^32 and the quotient below 2^16, so that neither the
\* 32-bit arithmetic nor the conversion to 16 bits loses anything; 1000
\* decodes to 982.
C20_GainCorrection ==
    pc.at = "decoded"
    => LET r == arg.finalCrosstalkCorrectedRangeMM_SD0
       IN  /\ last.ret.RangeMM = (r * 2011 + 1024) \div 2048
           /\ (r * 2011 + 1024) \div W16 < W16
           /\ (r * 2011 + 1024) \div 2048 < W16
           /\ r = 1000 => last.ret.RangeMM = 982

\* the largest raw range has been decoded
C20_Witness ==
    /\ pc.at = "decoded" /\ arg.finalCrosstalkCorrectedRangeMM_SD0 = 65535
    /\ last.ret.RangeMM = 64351

\* C21: when New fails, at whatever step, setup has left no partial state: the
\* device is not ranging continuously (SYSTEM_MODE_START is not 0x40), the
\* two VHV registers hold what they held before New, and the driver has
\* recorded no calibration.
C21_InitFailureLeavesNothing ==
    (last.op = "Init" /\ last.err # "")
    => /\ dev["SYSTEM_MODE_START"] # 64
       /\ VHV(dev) = hist.before
       /\ ~drv.calibrated

(***************************************************************************)
(* One call of a public operation on a bus that fails at one transaction.  *)
(* The driver is idle after New, in a started session, or in a session     *)
(* that has read once; arg is the transaction of the call at which the bus *)
(* fails (a write error, a read error or a short read; 0: none); pc.at is  *)
(* "ready" before the call and "returned" after it.                        *)
(***************************************************************************)
MaxFault == 14

FaultStarts ==
    LET s0 == NewDevice(Nominal(48332), Long, U32(50))
        s1 == StartContinuous(Run(s0.dev, s0.drv, 0), U32(50))
        s2 == Read(Run(s1.dev, s1.drv, 0), TRUE, 0, 1, Block(9, 1, 4096, 100, 1000, 2000))
    IN  { <<s0.dev, s0.drv>>, <<s1.dev, s1.drv>>, <<s2.dev, s2.drv>> }

InitFault ==
    \E s \in FaultStarts :
        /\ dev = s[1]
        /\ drv = s[2]
        /\ last = [op |-> "new", arg |-> <<>>, err |-> "", ret |-> 0, log |-> <<>>]
        /\ hist = NoHist
        /\ arg = 0
        /\ pc = [at |-> "ready", i |-> 0]

\* the call has run to s with the bus failing at transaction fail
Faulted(op, a, s, fail) ==
    /\ dev' = s.dev
    /\ drv' = s.drv
    /\ last' = Called(op, a, s)
    /\ arg' = fail
    /\ pc' = [pc EXCEPT !.at = "returned"]
    /\ UNCHANGED hist

FaultSetMeasurementTimingBudget ==
    /\ pc.at = "ready"
    /\ \E fail \in 0..MaxFault, budget \in {20, 50} :
          Faulted("SetMeasurementTimingBudget", budget,
                  SetMeasurementTimingBudget(Run(dev, drv, fail), U32(budget)), fail)

FaultSetDistanceMode ==
    /\ pc.at = "ready"
    /\ \E fail \in 0..MaxFault, mode \in {Short, Medium, Long} :
          Faulted("SetDistanceMode", mode, SetDistanceMode(Run(dev, drv, fail), mode), fail)

FaultStartContinuous ==
    /\ pc.at = "ready"
    /\ \E fail \in 0..MaxFault :
          Faulted("StartContinuous", 50, StartContinuous(Run(dev, drv, fail), U32(50)), fail)

FaultStopContinuous ==
    /\ pc.at = "ready"
    /\ \E fail \in 0..MaxFault :
          Faulted("StopContinuous", <<>>, StopContinuous(Run(dev, drv, fail)), fail)

FaultRead ==
    /\ pc.at = "ready"
    /\ \E fail \in 0..MaxFault, blocking \in BOOLEAN, poll \in Polls :
          /\ ~blocking => poll = <<0, 1>>
          /\ Faulted("Read", blocking,
                     Read(Run(dev, drv, fail), blocking, poll[1], poll[2],
                          Block(9, 1, 4096, 100, 1000, 2000)), fail)

FaultReadSingle ==
    /\ pc.at = "ready"
    /\ \E fail \in 0..MaxFault :
          Faulted("ReadSingle", <<>>,
                  ReadSingle(Run(dev, drv, fail), 0, 1,
                             Block(9, 1, 4096, 100, 1000, 2000)), fail)

FaultSetROISize ==
    /\ pc.at = "ready"
    /\ \E fail \in 0..MaxFault, size \in {<<3, 8>>, <<8, 8>>, <<12, 6>>} :
          Faulted("SetROISize", size,
                  SetROISize(Run(dev, drv, fail), size[1], size[2]), fail)

FaultInit ==
    /\ pc.at = "ready"
    /\ \E fail \in 0..MaxInitFail :
          Faulted("Init", <<>>,
                  InitDevice(Run(dev, drv, fail), 0, 1, 0, 1,
                             Block(9, 1, 4096, 100, 1000, 2000)), fail)

NextFault ==
    \/ FaultSetMeasurementTimingBudget
    \/ FaultSetDistanceMode
    \/ FaultStartContinuous
    \/ FaultStopContinuous
    \/ FaultRead
    \/ FaultReadSingle
    \/ FaultSetROISize
    \/ FaultInit

SpecFault == InitFault /\ [][NextFault]_vars

\* C22: in every public operation the first failing bus transaction ends the
\* operation with an error: the transactions before it succeeded, it is the
\* last transaction of the call (no retry, nothing after it), and the call
\* returns a non-nil error.
C22_FirstFailureEndsOperation ==
    pc.at = "returned"
    => /\ \A j \in 1..Len(last.log) :
             last.log[j].k = "fail" => (j = Len(last.log) /\ last.err # "")
       /\ (arg > 0 /\ Len(last.log) >= arg)
             => /\ Len(last.log) = arg
                /\ last.log[arg].k = "fail"
                /\ last.err = "bus"
       /\ \A j \in 1..Len(last.log) : j # arg => last.log[j].k # "fail"

\* SetDistanceMode has failed at its fifth transaction, after preset writes
C22_Witness ==
    /\ pc.at = "returned" /\ last.op = "SetDistanceMode" /\ arg = 5
    /\ Len(last.log) = 5 /\ last.log[5].k = "fail" /\ last.log[4].k = "w"
    /\ last.err = "bus"

(***************************************************************************)
(* The region of interest: SetROISize, GetROISize, SetROICenter and        *)
(* GetROICenter called in any order on a reliable bus after New.           *)
(***************************************************************************)
\* <<width, height>> (uint8 each): the values at the edges of the size check,
\* of the centring and of the clipping with one another, and every width and
\* every height of 0..17 and the largest with a fixed other side
ROISizes ==
    ({0, 3, 4, 6, 10, 11, 12, 16, 17, 255} \X {0, 3, 4, 6, 10, 11, 12, 16, 17, 255})
    \cup (((0..17) \cup {255}) \X {6})
    \cup ({12} \X ((0..17) \cup {255}))

\* centre SPADs
ROICenters == {59, 199}

InitROI ==
    \E s \in {NewDevice(Nominal(48332), Long, U32(50))} :
        /\ dev = s.dev
        /\ drv = s.drv
        /\ last = [op |-> "Init", arg |-> <<>>, err |-> s.err, ret |-> 0, log |-> <<>>]
        /\ hist = NoHist
        /\ arg = 0
        /\ pc = [at |-> "roi", i |-> 0]

ROICalled(op, a, s) ==
    /\ dev' = s.dev
    /\ drv' = s.drv
    /\ last' = Called(op, a, s)
    /\ UNCHANGED <<hist, arg, pc>>

SetROISizeCall ==
    \E size \in ROISizes :
        ROICalled("SetROISize", size, SetROISize(Run(dev, drv, 0), size[1], size[2]))

GetROISizeCall == ROICalled("GetROISize", <<>>, GetROISize(Run(dev, drv, 0)))

SetROICenterCall ==
    \E spadNumber \in ROICenters :
        ROICalled("SetROICenter", spadNumber, SetROICenter(Run(dev, drv, 0), spadNumber))

GetROICenterCall == ROICalled("GetROICenter", <<>>, GetROICenter(Run(dev, drv, 0)))

NextROI ==
    \/ SetROISizeCall
    \/ GetROISizeCall
    \/ SetROICenterCall
    \/ GetROICenterCall

SpecROI == InitROI /\ [][NextROI]_vars

\* C23: SetROISize(w, h) with w < 4 or h < 4 returns an error and writes no
\* register: the size register and the centre register keep their values.
C23_SmallROIRejected ==
    [][(last'.op = "SetROISize" /\ (last'.arg[1] < 4 \/ last'.arg[2] < 4))
       => /\ last'.err # ""
          /\ last'.log = <<>>
          /\ dev' = dev]_observed

\* SetROISize(3, 12) was rejected after SetROISize(12, 6) and SetROICenter(59)
C23_Witness ==
    /\ last.op = "SetROISize" /\ last.arg = <<3, 12>> /\ last.err # ""
    /\ dev["ROI_CONFIG_USER_ROI_REQUESTED_GLOBAL_XY_SIZE"] = 5 * 16 + 11
    /\ dev["ROI_CONFIG_USER_ROI_CENTRE_SPAD"] = 59

\* C24: for all w, h >= 4, GetROISize after a successful SetROISize(w, h)
\* returns (min(w, 16), min(h, 16)), which is (w, h) for w, h in 4..16.
C24_ROISizeRoundTrip ==
    [][(/\ last.op = "SetROISize" /\ last.err = ""
        /\ last.arg[1] >= 4 /\ last.arg[2] >= 4
        /\ last'.op = "GetROISize")
       => /\ last'.err = ""
          /\ last'.ret = <<IF last.arg[1] < 16 THEN last.arg[1] ELSE 16,
                           IF last.arg[2] < 16 THEN last.arg[2] ELSE 16>>]_observed

\* GetROISize has returned (12, 6), the size register holding what
\* SetROISize(12, 6) wrote
C24_Witness ==
    /\ last.op = "GetROISize" /\ last.err = "" /\ last.ret = <<12, 6>>
    /\ dev["ROI_CONFIG_USER_ROI_REQUESTED_GLOBAL_XY_SIZE"] = 5 * 16 + 11

\* C25: SetROISize writes the centre register, and then with SPAD 199, if and
\* only if the width or the height exceeds 10; when both are at most 10 the
\* centre is left as it was; SetROICenter and GetROICenter never change the
\* size register.
C25_CentreForcedIffLarge ==
    [][/\ last'.op = "SetROISize"
          => /\ Count(last'.log, "w", "ROI_CONFIG_USER_ROI_CENTRE_SPAD") > 0
                   <=> (last'.arg[1] > 10 \/ last'.arg[2] > 10)
             /\ (last'.arg[1] > 10 \/ last'.arg[2] > 10)
                   => dev'["ROI_CONFIG_USER_ROI_CENTRE_SPAD"] = 199
             /\ (last'.arg[1] <= 10 /\ last'.arg[2] <= 10)
                   => dev'["ROI_CONFIG_USER_ROI_CENTRE_SPAD"]
                         = dev["ROI_CONFIG_USER_ROI_CENTRE_SPAD"]
       /\ last'.op \in {"SetROICenter", "GetROICenter"}
          => dev'["ROI_CONFIG_USER_ROI_REQUESTED_GLOBAL_XY_SIZE"]
                = dev["ROI_CONFIG_USER_ROI_REQUESTED_GLOBAL_XY_SIZE"]]_observed

\* C25, for the sizes SetROISize accepts (width and height of 4 or more): the
\* centre register is written, with SPAD 199, if and only if the width or the
\* height exceeds 10, and is left as it was otherwise; a rejected SetROISize
\* writes nothing; SetROICenter and GetROICenter never change the size
\* register.
C25_CentreForcedIffLargeAccepted ==
    [][/\ (last'.op = "SetROISize" /\ last'.arg[1] >= 4 /\ last'.arg[2] >= 4)
          => /\ Count(last'.log, "w", "ROI_CONFIG_USER_ROI_CENTRE_SPAD") > 0
                   <=> (last'.arg[1] > 10 \/ last'.arg[2] > 10)
             /\ (last'.arg[1] > 10 \/ last'.arg[2] > 10)
                   => dev'["ROI_CONFIG_USER_ROI_CENTRE_SPAD"] = 199
             /\ (last'.arg[1] <= 10 /\ last'.arg[2] <= 10)
                   => dev'["ROI_CONFIG_USER_ROI_CENTRE_SPAD"]
                         = dev["ROI_CONFIG_USER_ROI_CENTRE_SPAD"]
       /\ (last'.op = "SetROISize" /\ (last'.arg[1] < 4 \/ last'.arg[2] < 4))
          => Count(last'.log, "w", "ROI_CONFIG_USER_ROI_CENTRE_SPAD") = 0
       /\ last'.op \in {"SetROICenter", "GetROICenter"}
          => dev'["ROI_CONFIG_USER_ROI_REQUESTED_GLOBAL_XY_SIZE"]
                = dev["ROI_CONFIG_USER_ROI_REQUESTED_GLOBAL_XY_SIZE"]]_observed

\* SetROISize(10, 10) has left the centre that SetROICenter(59) set
C25_Witness ==
    /\ last.op = "SetROISize" /\ last.arg = <<10, 10>> /\ last.err = ""
    /\ dev["ROI_CONFIG_USER_ROI_CENTRE_SPAD"] = 59
    /\ dev["ROI_CONFIG_USER_ROI_REQUESTED_GLOBAL_XY_SIZE"] = 9 * 16 + 9

\* C26: a single-shot measurement gives its calibration state back: when
\* ReadSingle returns successfully the two VHV registers hold the values they
\* had before the call, and calibrated is false, so that the next ReadSingle
\* or continuous session starts uncalibrated.
C26_SingleShotRestores ==
    [][(last'.op = "ReadSingle" /\ last'.err = "")
       => /\ VHV(dev') = VHV(dev)
          /\ ~drv'.calibrated]_observed

\* C27: a driver returned by New, on which SetTimeout has not been called,
\* has no I/O timeout: ioTimeout is 0 when New returns, and a blocking Read
\* made right after New does not return the timeout error however long the
\* sensor stays not ready.
C27_NoTimeoutByDefault ==
    [][(last.op = "Init" /\ last.err = "")
       => /\ drv.ioTimeout = 0
          /\ last'.op = "Read" => last'.err # "timeout waiting for data"]_observed

(***************************************************************************)
(* Sessions on a bus that may fail during a Read: New on the nominal       *)
(* sensor, then StartContinuous, blocking Reads of a ready sensor, each    *)
(* with the bus failing at one of its transactions or at none, and         *)
(* StopContinuous, in any order.  pc.i counts the Reads made.              *)
(***************************************************************************)
MaxReadCalls == 2

InitVHV ==
    \E s \in {NewDevice(Nominal(48332), Long, U32(50))} :
        /\ dev = s.dev
        /\ drv = s.drv
        /\ last = Called("Init", <<>>, s)
        /\ hist = AfterInit(s, PowerOn(Nominal(48332)))
        /\ arg = 0
        /\ pc = [at |-> "roi", i |-> 0]

VHVStart ==
    /\ DoStartContinuous(55, 0)
    /\ UNCHANGED <<arg, pc>>

VHVRead ==
    /\ hist.session = "open"
    /\ pc.i < MaxReadCalls
    /\ \E fail \in 0..MaxFault :
          /\ DoRead(TRUE, 0, 1, Block(9, 1, 4096, 100, 1000, 2000), fail)
          /\ arg' = fail
    /\ pc' = [pc EXCEPT !.i = @ + 1]

VHVStop ==
    /\ DoStopContinuous(0)
    /\ UNCHANGED <<arg, pc>>

NextVHV ==
    \/ VHVStart
    \/ VHVRead
    \/ VHVStop

SpecVHV == InitVHV /\ [][NextVHV]_vars

\* C28: whatever bus transactions of the Reads fail, the VHV values the
\* driver has saved are the values the device had before any calibration
\* override was written (139 and 9 on the nominal sensor), also when a
\* calibration setup that failed part-way is run again by a later Read, and a
\* successful StopContinuous of the session puts those values back.
C28_SavedVHVAreOriginal ==
    /\ drv.savedVHVInit \in {0, Nominal(48332).vhvInit}
    /\ drv.savedVHVTimeout \in {0, Nominal(48332).vhvLoop}
    /\ (last.op = "StopContinuous" /\ last.err = "" /\ hist.reads >= 1)
          => VHV(dev) = <<Nominal(48332).vhvInit, Nominal(48332).vhvLoop>>

(***************************************************************************)
(* The timing budget on a sensor that reports the oscillator frequency     *)
(* arg.fosc at initialization and holds arg.vcsel in its two VCSEL period  *)
(* registers: one GetMeasurementTimingBudget or                             *)
(* SetMeasurementTimingBudget(50).  pc.at is "ready", then "returned".     *)
(***************************************************************************)
\* OSC_MEASURED_FAST_OSC_FREQUENCY (16 bits): 0, the small values, the values
\* around the wraparound of 2304 * pllPeriodUs, the nominal and the largest
OscFrequencies == (0..16) \cup {512, 576, 577, 1024, 48332, 65535}

\* RANGE_CONFIG_VCSEL_PERIOD_A / _B (8 bits)
VcselPeriods == {0, 7, 9, 11, 15, 255}

InitOsc ==
    \E s \in {NewDevice(Nominal(48332), Long, U32(50))},
       fosc \in OscFrequencies, vcsel \in VcselPeriods :
        /\ dev = [s.dev EXCEPT !["RANGE_CONFIG_VCSEL_PERIOD_A"] = vcsel,
                               !["RANGE_CONFIG_VCSEL_PERIOD_B"] = vcsel]
        /\ drv = [s.drv EXCEPT !.fastOscFrequency = fosc]
        /\ last = [op |-> "Init", arg |-> <<>>, err |-> "", ret |-> <<0, 0>>,
                   log |-> <<>>]
        /\ hist = NoHist
        /\ arg = [fosc |-> fosc, vcsel |-> vcsel]
        /\ pc = [at |-> "ready", i |-> 0]

OscGetBudget ==
    /\ pc.at = "ready"
    /\ LET s == GetMeasurementTimingBudget(Run(dev, drv, 0))
       IN  /\ dev' = s.dev
           /\ drv' = s.drv
           /\ last' = [op |-> "GetMeasurementTimingBudget", arg |-> <<>>,
                       err |-> s.err, ret |-> IF Ok(s) THEN s.ret ELSE <<0, 0>>,
                       log |-> s.log]
    /\ pc' = [pc EXCEPT !.at = "returned"]
    /\ UNCHANGED <<hist, arg>>

OscSetBudget ==
    /\ pc.at = "ready"
    /\ LET s == SetMeasurementTimingBudget(Run(dev, drv, 0), U32(50))
       IN  /\ dev' = s.dev
           /\ drv' = s.drv
           /\ last' = [op |-> "SetMeasurementTimingBudget", arg |-> <<>>,
                       err |-> s.err, ret |-> <<0, 0>>, log |-> s.log]
    /\ pc' = [pc EXCEPT !.at = "returned"]
    /\ UNCHANGED <<hist, arg>>

NextOsc ==
    \/ OscGetBudget
    \/ OscSetBudget

SpecOsc == InitOsc /\ [][NextOsc]_vars

\* C29: for every oscillator frequency read at initialization, 0 and the
\* small values included, and every VCSEL period, the macro period is not
\* zero and neither GetMeasurementTimingBudget nor
\* SetMeasurementTimingBudget divides by zero.
C29_NoDivisionByZero ==
    pc.at = "returned"
    => /\ last.err # "panic"
       /\ arg.fosc # 0
       /\ ~EqU(calcMacroPeriod(drv, arg.vcsel), <<0, 0>>)

\* C30: when SetDistanceMode has returned, successfully or with an error
\* (a bus failure at any of its transactions included), GetDistanceMode is
\* the mode whose preset is in the VCSEL period, valid phase, WOI and initial
\* phase registers of the device.
C30_ModeMatchesPreset ==
    (pc.at = "returned" /\ last.op = "SetDistanceMode")
    => <<dev["RANGE_CONFIG_VCSEL_PERIOD_A"], dev["RANGE_CONFIG_VCSEL_PERIOD_B"],
         dev["RANGE_CONFIG_VALID_PHASE_HIGH"], dev["SD_CONFIG_WOI_SD0"],
         dev["SD_CONFIG_WOI_SD1"], dev["SD_CONFIG_INITIAL_PHASE_SD0"],
         dev["SD_CONFIG_INITIAL_PHASE_SD1"]>> = ModePreset(GetDistanceMode(drv))

\* C31: when New has returned successfully, its warm-up session included, the
\* driver is idle and clean: calibrated is false, SYSTEM_MODE_START holds the
\* abort command 0x80, PHASECAL_CONFIG_OVERRIDE is 0, and VHV_CONFIG_INIT and
\* VHV_CONFIG_TIMEOUT_MACROP_LOOP_BOUND hold the values the device had after
\* reset.
C31_CleanAfterInit ==
    (last.op = "Init" /\ last.err = "")
    => /\ ~drv.calibrated
       /\ dev["SYSTEM_MODE_START"] = 128
       /\ dev["PHASECAL_CONFIG_OVERRIDE"] = 0
       /\ VHV(dev) = hist.before

(***************************************************************************)
(* The rounding of the timeout codec: the timeouts encoded are the         *)
(* neighbours of the timeouts that register values decode to, up to        *)
(* MaxOffset below and above them (in uint32, so 1 - 2 is 2^32 - 1).       *)
(***************************************************************************)
MaxOffset == 3

InitRound ==
    /\ dev = PowerOn(Nominal(48332))
    /\ drv = new(Long, U32(50))
    /\ hist = NoHist
    /\ last = [op |-> "new", arg |-> <<>>, err |-> "", ret |-> 0, log |-> <<>>]
    /\ pc = [at |-> "n", i |-> 0]
    /\ \E r \in CodecRegs, d \in 0..MaxOffset :
          \/ arg = [n |-> AddU(decodeTimeout(r), U32(d)), reg |-> -1]
          \/ arg = [n |-> SubU(decodeTimeout(r), U32(d)), reg |-> -1]

SpecRound == InitRound /\ [][NextCodec]_vars

\* C32: encodeTimeout only rounds down.  For a timeout n > 0 that has been
\* encoded and decoded again, with e the high byte of the register value and d
\* the decoded timeout: n - 2^e < d <= n, the low byte of the register value
\* is (n - 1) >> e, e is the least shift that leaves n - 1 in 8 bits, and
\* e <= 24.
C32_EncodeRoundsDown ==
    (pc.at = "decoded" /\ LtU(<<0, 0>>, arg.n))
    => LET e == last.arg \div 256
           x == SubU(arg.n, <<0, 1>>)
       IN  /\ e <= 24
           /\ EqU(ShrU(x, e), <<0, last.arg % 256>>)
           /\ e > 0 => LeU(<<0, 256>>, ShrU(x, e - 1))
           /\ LeU(last.ret, arg.n)
           /\ LtU(SubU(arg.n, last.ret), ShlU(<<0, 1>>, e))

\* the timeout 260 has come back as 259 from register value 0x0181
C32_Witness ==
    /\ pc.at = "decoded" /\ arg.n = <<0, 260>>
    /\ last.arg = 385 /\ last.ret = <<0, 259>>

====
